---- MODULE Spec2Model ----
(***************************************************************************)
(* Model of crates/semantic_index/src/embedding_index.rs: the four-stage   *)
(* scan -> chunk -> embed -> persist pipeline of EmbeddingIndex, its       *)
(* key-ordered store and the in-flight registry of entry handles.          *)
(*                                                                         *)
(* Option<T> values are sequences of length <= 1: <<>> is None and <<x>>   *)
(* is Some(x).  A Bound<String> is <<k>> for Included(k) and <<>> for      *)
(* Unbounded.  Strings are sequences of character codes.                   *)
(***************************************************************************)
EXTENDS Integers, Sequences, FiniteSets, TLC

\* ------------------------------------------------------------------ bounds
MaxLive == 2
MaxStored == 3
MaxMtime == 1
MaxRuns == 2
NumWorkers == 2
ProviderBatchSize == 2
MaxChanges == 2
ChannelBound == 1

\* ------------------------------------------------------- program constants
UpdatedEntriesCap == 512
DeletedRangesCap == 128
ChunkedFilesCap == 2048
EmbeddedFilesCap == 512
MicroBatchMax == 512

\* ------------------------------------------------------------ strings, keys
None == <<>>
Some(x) == <<x>>

\* The paths of the modelled file tree: "a-b", "a/b", "b", "c".
Paths == { <<97, 45, 98>>, <<97, 47, 98>>, <<98>>, <<99>> }

Min(a, b) == IF a < b THEN a ELSE b

\* str::cmp: byte-wise lexicographic order.
StrLess(a, b) ==
    \E i \in 1..(Min(Len(a), Len(b)) + 1) :
        /\ \A j \in 1..(i - 1) : a[j] = b[j]
        /\ \/ (i > Len(a) /\ i <= Len(b))
           \/ (i <= Len(a) /\ i <= Len(b) /\ a[i] < b[i])

StrLeq(a, b) == a = b \/ StrLess(a, b)

\* path.to_string_lossy().replace('/', "\0")
db_key_for_path(path) ==
    [i \in 1..Len(path) |-> IF path[i] = 47 THEN 0 ELSE path[i]]

AllKeys == { db_key_for_path(p) : p \in Paths }

\* ProjectEntryId of the entry at a path (one id per path of the tree).
EntryId(path) ==
    CASE path = <<97, 45, 98>> -> 1
      [] path = <<97, 47, 98>> -> 2
      [] path = <<98>> -> 3
      [] OTHER -> 4

\* Content of the file behind an entry, as fs.load returns it.
FileText(path) ==
    CASE path = <<97, 45, 98>> -> <<120, 121, 122, 120, 121>>
      [] path = <<97, 47, 98>> -> <<>>
      [] path = <<98>> -> <<121>>
      [] OTHER -> <<122, 120>>

\* Text of the records that are in the store before the first run.
OldText == <<119>>

MtimeOpts == {None} \cup { Some(m) : m \in 1..MaxMtime }

\* ------------------------------------------------------- chunker, provider
SubSeqOrEmpty(s, lo, hi) == IF lo > hi THEN <<>> ELSE SubSeq(s, lo, hi)

RECURSIVE SumCodes(_)
SumCodes(s) == IF s = <<>> THEN 0 ELSE Head(s) + SumCodes(Tail(s))

\* chunking::chunk_text: ordered byte ranges [start, end) with a digest.
NumChunks(text) == (Len(text) + 1) \div 2

chunk_text(text) ==
    [k \in 1..NumChunks(text) |->
        [start |-> 2 * (k - 1),
         end |-> Min(2 * k, Len(text)),
         digest |-> SumCodes(SubSeqOrEmpty(text, 2 * (k - 1) + 1, Min(2 * k, Len(text)))) % 256]]

\* &file.text[chunk.range.clone()]
ChunkSlice(text, chunk) == SubSeqOrEmpty(text, chunk.start + 1, chunk.end)

\* The vector the provider returns for a text.
EmbeddingOf(text) == [vec |-> text]

\* ------------------------------------------------------------------- store
\* EmbeddedChunk list of a text whose chunks all embedded.
EmbedAll(text) ==
    [k \in 1..NumChunks(text) |->
        [chunk |-> chunk_text(text)[k],
         embedding |-> EmbeddingOf(ChunkSlice(text, chunk_text(text)[k]))]]

RECURSIVE SortKeys(_)
\* db.iter(&txn): the keys of the database in byte-string order.
SortKeys(S) ==
    IF S = {} THEN <<>>
    ELSE LET m == CHOOSE x \in S : \A y \in S : StrLeq(x, y)
         IN <<m>> \o SortKeys(S \ {m})

\* RangeBounds::contains for (Bound<&str>, Bound<&str>).
InRange(k, range) ==
    /\ (range.lo = <<>> \/ StrLeq(range.lo[1], k))
    /\ (range.hi = <<>> \/ StrLeq(k, range.hi[1]))

\* The end bound taken as excluded.
DeleteRangeEndExcluded(db, range) ==
    [k \in { x \in DOMAIN db :
                ~(InRange(x, range) /\ (range.hi = <<>> \/ x # range.hi[1])) } |-> db[k]]

\* db.delete_range(&mut txn, &(start, end))
DeleteRange(db, range) ==
    [k \in { x \in DOMAIN db : ~InRange(x, range) } |-> db[k]]

\* The chunks of the record already under the key are kept after the new ones.
PutKeepsOldChunks(db, key, file) ==
    [k \in (DOMAIN db) \cup {key} |->
        IF k = key
        THEN IF key \in DOMAIN db
             THEN [file EXCEPT !.chunks = file.chunks \o db[key].chunks]
             ELSE file
        ELSE db[k]]

\* The record is written without its last chunk.
PutTorn(db, key, file) ==
    [k \in (DOMAIN db) \cup {key} |->
        IF k = key
        THEN [file EXCEPT !.chunks = SubSeqOrEmpty(file.chunks, 1, Len(file.chunks) - 1)]
        ELSE db[k]]

\* db.put(&mut txn, &key, &file)
Put(db, key, file) ==
    [k \in (DOMAIN db) \cup {key} |-> IF k = key THEN file ELSE db[k]]

\* The lookup by the path itself instead of its key.
chunks_for_raw_path(db, path) ==
    IF path \in DOMAIN db
    THEN [ok |-> TRUE, chunks |-> db[path].chunks]
    ELSE [ok |-> FALSE, chunks |-> <<>>]

\* An absent path gives the empty list.
chunks_for_path_or_empty(db, path) ==
    IF db_key_for_path(path) \in DOMAIN db
    THEN [ok |-> TRUE, chunks |-> db[db_key_for_path(path)].chunks]
    ELSE [ok |-> TRUE, chunks |-> <<>>]

\* db.get(&tx, &db_key_for_path(&path))?.ok_or_else(..)?.chunks.clone()
chunks_for_path(db, path) ==
    IF db_key_for_path(path) \in DOMAIN db
    THEN [ok |-> TRUE, chunks |-> db[db_key_for_path(path)].chunks]
    ELSE [ok |-> FALSE, chunks |-> <<>>]

\* ------------------------------------------------------------------- input
RECURSIVE SortPaths(_)
\* Paths in the order of their keys, the order of a worktree traversal.
SortPaths(S) ==
    IF S = {} THEN <<>>
    ELSE LET m == CHOOSE x \in S :
                     \A y \in S : StrLeq(db_key_for_path(x), db_key_for_path(y))
         IN <<m>> \o SortPaths(S \ {m})

Listing(S, m) ==
    [i \in 1..Cardinality(S) |->
        [id |-> EntryId(SortPaths(S)[i]), path |-> SortPaths(S)[i],
         mtime |-> m[SortPaths(S)[i]], is_file |-> TRUE]]

LiveListings ==
    UNION { { Listing(S, m) : m \in [S -> MtimeOpts] } :
            S \in { T \in SUBSET Paths : Cardinality(T) <= MaxLive } }

StoreOf(S, m) ==
    [k \in { db_key_for_path(p) : p \in S } |->
        LET p == CHOOSE q \in S : db_key_for_path(q) = k
        IN [path |-> p, mtime |-> m[p], text |-> OldText, chunks |-> EmbedAll(OldText)]]

InitialStores ==
    UNION { { StoreOf(S, m) : m \in [S -> MtimeOpts] } :
            S \in { T \in SUBSET Paths : Cardinality(T) <= MaxStored } }

\* ------------------------------------------------------------------- state
VARIABLES
    worktree,             \* Snapshot: the entries of the tree, in traversal order
    scanKind,             \* "full": scan_entries, "updated": scan_updated_entries
    updated_set,          \* UpdatedEntriesSet: (path, entry id, PathChange) triples
    store,                \* heed database: key -> EmbeddedFile
    registry,             \* IndexingEntrySet: entry ids being indexed
    run,                  \* number of the indexing run in progress
    droppedBefore,        \* paths the embedder dropped in the run before this one
    composite,            \* try_join! of the four tasks: "pending", "ok", "err"
    storeFaulty,          \* the storage layer may fail a transaction in this run
    chanCap,              \* the capacities of the four channels in this run
    providerFaults,       \* the ways the provider may fail a call in this run
    snapshot,             \* the scanner's read transaction
    scanPc, scanIdx, dbPos, deletion_range,
    updated_entries, deleted_entry_ranges, chunked_files, embedded_files,
    workers,              \* chunker workers: [pc, file]
    embedPc, embedQueue, embedResults,
    slotOutcomes,         \* for each slot of embedResults, what the provider answered
    persistPc,
    sentEntries, sentRanges,      \* history of the scanner's two senders in this run
    loadFailed, embedFailed,      \* paths skipped / dropped in this run
    prevClean,                    \* no file was skipped or dropped in an earlier run
    readerPc,             \* the task of paths(): "idle", "iter", "done"
    readerSnap,           \* the database as its read transaction sees it
    readerOut,            \* the paths it has collected
    lookup                \* the last answer of chunks_for_path, with its path

inputVars == <<worktree, scanKind, updated_set, storeFaulty, chanCap, providerFaults>>
runVars == <<run, composite, droppedBefore>>
scanVars == <<snapshot, scanPc, scanIdx, dbPos, deletion_range>>
chanVars == <<updated_entries, deleted_entry_ranges, chunked_files, embedded_files>>
embedVars == <<embedPc, embedQueue, embedResults, slotOutcomes>>
histVars == <<sentEntries, sentRanges, loadFailed, embedFailed, prevClean>>
readerVars == <<readerPc, readerSnap, readerOut, lookup>>
pipelineVars == <<inputVars, store, registry, runVars, scanVars, chanVars, workers,
                  embedVars, persistPc, histVars>>
vars == <<pipelineVars, readerVars>>

Workers == 1..NumWorkers

\* channel::bounded(512), (128), (2048), (512)
BoundedCaps ==
    [updated_entries |-> UpdatedEntriesCap, deleted_entry_ranges |-> DeletedRangesCap,
     chunked_files |-> ChunkedFilesCap, embedded_files |-> EmbeddedFilesCap]

\* The same channels scaled down to hold ChannelBound items each.
TightCaps ==
    [updated_entries |-> Min(UpdatedEntriesCap, ChannelBound),
     deleted_entry_ranges |-> Min(DeletedRangesCap, ChannelBound),
     chunked_files |-> Min(ChunkedFilesCap, ChannelBound),
     embedded_files |-> Min(EmbeddedFilesCap, ChannelBound)]

\* worktree.files(false, 0)
Files(tree) == SelectSeq(tree, LAMBDA e : e.is_file)

FreshStages ==
    /\ scanPc = "start"
    /\ scanIdx = 1
    /\ dbPos = 1
    /\ deletion_range = None
    /\ snapshot = << >>
    /\ updated_entries = <<>>
    /\ deleted_entry_ranges = <<>>
    /\ chunked_files = <<>>
    /\ embedded_files = <<>>
    /\ workers = [w \in Workers |-> [pc |-> "recv", file |-> None]]
    /\ embedPc = "wait"
    /\ embedQueue = <<>>
    /\ embedResults = <<>>
    /\ slotOutcomes = <<>>
    /\ readerPc = "idle"
    /\ readerSnap = << >>
    /\ readerOut = <<>>
    /\ lookup = None
    /\ persistPc = "run"
    /\ sentEntries = <<>>
    /\ sentRanges = <<>>
    /\ loadFailed = {}
    /\ embedFailed = {}

\* A run of the pipeline: the files of the tree carry a modification token, the
\* stored records carry the same token or none.
RunListings ==
    { Listing(S, [p \in S |-> Some(1)]) :
        S \in { T \in SUBSET Paths : Cardinality(T) <= MaxLive } }

RunStores ==
    UNION { { StoreOf(S, m) : m \in [S -> {None, Some(1)}] } :
            S \in { T \in SUBSET Paths : Cardinality(T) <= MaxStored } }

Init ==
    /\ worktree \in RunListings
    /\ scanKind = "full"
    /\ updated_set = <<>>
    /\ store \in RunStores
    /\ registry = {}
    /\ storeFaulty = FALSE
    /\ chanCap = BoundedCaps
    /\ providerFaults = {"err"}
    /\ run = 1
    /\ composite = "pending"
    /\ droppedBefore = {}
    /\ prevClean = TRUE
    /\ FreshStages

\* The scanner on every listing and every store of the bounds.
InitScan ==
    /\ worktree \in LiveListings
    /\ scanKind = "full"
    /\ updated_set = <<>>
    /\ store \in InitialStores
    /\ registry = {}
    /\ storeFaulty = FALSE
    /\ chanCap = BoundedCaps
    /\ providerFaults = {"err"}
    /\ run = 1
    /\ composite = "pending"
    /\ droppedBefore = {}
    /\ prevClean = TRUE
    /\ FreshStages

\* ----------------------------------------------------------------- scanner
\* IndexingEntrySet::insert and the drop of an IndexingEntryHandle.
RegistryInsert(set, id) == set \cup {id}
RegistryRemove(set, id) == set \ {id}

\* The start of the open range is moved instead of its end.
ExtendRangeMovesStart(range, db_path) ==
    IF range # None
    THEN Some([range[1] EXCEPT !.lo = <<db_path>>])
    ELSE Some([lo |-> <<db_path>>, hi |-> <<db_path>>])

\* Ordering::Less branch: open the range at db_path or move its end to it.
ExtendRange(range, db_path) ==
    IF range # None
    THEN Some([range[1] EXCEPT !.hi = <<db_path>>])
    ELSE Some([lo |-> <<db_path>>, hi |-> <<db_path>>])

RECURSIVE SkipLess(_, _, _, _)
\* The while-let loop as long as the peeked key compares Less.
SkipLess(keys, pos, range, entry_db_key) ==
    IF pos <= Len(keys) /\ StrLess(keys[pos], entry_db_key)
    THEN SkipLess(keys, pos + 1, ExtendRange(range, keys[pos]), entry_db_key)
    ELSE [pos |-> pos, range |-> range]

\* The range is sent but left in place.
RangeKeptAfterSend(range) == range

\* deletion_range.take()
RangeAfterTake(range) == None

\* entry.mtime != saved_mtime
NeedsIndex(entry_mtime, saved_mtime) == entry_mtime # saved_mtime

DbKeys == SortKeys(DOMAIN snapshot)

\* The outcomes of a storage call: Ok, and Err where the storage layer may fail.
TxnOutcomes == IF storeFaulty THEN BOOLEAN ELSE {TRUE}

\* Only a persister that returned Ok counts as gone.
PersistDoneOnly == persistPc = "done"

\* The persister has returned: both its receivers are dropped.
PersistClosed == persistPc \in {"done", "failed"}

\* The embedder has returned: its receiver and its sender are dropped.
EmbedClosed == embedPc \in {"done", "failed"}

\* The chunk task has returned: its receiver and its sender are dropped.
ChunkClosed == \A w \in Workers : workers[w].pc = "done"

\* The senders of the scan task outlive it: its channels never close.
ScanSendersKept == FALSE

\* The scan task has returned: its two senders are dropped.
ScanClosed == scanPc \in {"done", "failed"}

\* read_txn()? and db.iter(&txn)?: the scanner's view of the store, or an error.
ScanBegin ==
    /\ scanKind = "full"
    /\ scanPc = "start"
    /\ \E ok \in TxnOutcomes :
          IF ok
          THEN snapshot' = store /\ scanPc' = "loop"
          ELSE snapshot' = snapshot /\ scanPc' = "failed"
    /\ UNCHANGED <<readerVars, inputVars, store, registry, runVars, scanIdx, dbPos, deletion_range,
                   chanVars, workers, embedVars, persistPc, histVars>>

\* Lines 185-188 up to the send: register the handle, or go to the next entry.
AfterWhile(entry, saved_mtime) ==
    IF NeedsIndex(entry.mtime, saved_mtime)
    THEN /\ registry' = RegistryInsert(registry, entry.id)
         /\ scanPc' = "send"
         /\ scanIdx' = scanIdx
    ELSE /\ registry' = registry
         /\ scanPc' = "loop"
         /\ scanIdx' = scanIdx + 1

\* One entry of the for loop, through the Less keys, up to Equal / Greater / end.
ScanMerge ==
    /\ scanKind = "full"
    /\ scanPc = "loop"
    /\ scanIdx <= Len(Files(worktree))
    /\ LET entry == Files(worktree)[scanIdx]
           r == SkipLess(DbKeys, dbPos, deletion_range, db_key_for_path(entry.path))
       IN \E ok \in TxnOutcomes :
             IF ok
             THEN /\ dbPos' = r.pos
                  /\ deletion_range' = r.range
                  /\ IF r.pos <= Len(DbKeys)
                            /\ DbKeys[r.pos] = db_key_for_path(entry.path)
                     THEN scanPc' = "equal" /\ UNCHANGED <<registry, scanIdx>>
                     ELSE AfterWhile(entry, None)
             ELSE \* Err(_) => return Err(..): the iterator failed
                  /\ dbPos <= Len(DbKeys)
                  /\ scanPc' = "failed"
                  /\ UNCHANGED <<dbPos, deletion_range, registry, scanIdx>>
    /\ UNCHANGED <<readerVars, inputVars, store, runVars, snapshot, chanVars, workers, embedVars,
                   persistPc, histVars>>

\* Ordering::Equal branch: send the open range, read the stored mtime.
ScanEqual ==
    /\ scanPc = "equal"
    /\ LET entry == Files(worktree)[scanIdx]
       IN IF deletion_range # None /\ PersistClosed
          THEN \* the receiver is gone: send(..).await? returns the error
               /\ deletion_range' = RangeAfterTake(deletion_range)
               /\ scanPc' = "failed"
               /\ UNCHANGED <<deleted_entry_ranges, sentRanges, dbPos, registry, scanIdx>>
          ELSE /\ IF deletion_range # None
                  THEN /\ Len(deleted_entry_ranges) < chanCap.deleted_entry_ranges
                       /\ deleted_entry_ranges' =
                              Append(deleted_entry_ranges, deletion_range[1])
                       /\ sentRanges' = Append(sentRanges, deletion_range[1])
                       /\ deletion_range' = RangeAfterTake(deletion_range)
                  ELSE UNCHANGED <<deleted_entry_ranges, sentRanges, deletion_range>>
               /\ dbPos' = dbPos + 1
               /\ AfterWhile(entry, snapshot[DbKeys[dbPos]].mtime)
    /\ UNCHANGED <<readerVars, inputVars, store, runVars, snapshot, updated_entries, chunked_files,
                   embedded_files, workers, embedVars, persistPc, sentEntries,
                   loadFailed, embedFailed, prevClean>>

\* updated_entries_tx.send((entry.clone(), handle)).await
ScanSend ==
    /\ scanKind = "full"
    /\ scanPc = "send"
    /\ LET entry == Files(worktree)[scanIdx]
       IN IF ChunkClosed
          THEN \* the receiver is gone: the handle is dropped with the error
               /\ registry' = RegistryRemove(registry, entry.id)
               /\ scanPc' = "failed"
               /\ UNCHANGED <<updated_entries, sentEntries, scanIdx>>
          ELSE /\ Len(updated_entries) < chanCap.updated_entries
               /\ updated_entries' =
                      Append(updated_entries, [entry |-> entry, handle |-> entry.id])
               /\ sentEntries' = Append(sentEntries, entry)
               /\ scanIdx' = scanIdx + 1
               /\ scanPc' = "loop"
               /\ UNCHANGED registry
    /\ UNCHANGED <<readerVars, inputVars, store, runVars, snapshot, dbPos, deletion_range,
                   deleted_entry_ranges, chunked_files, embedded_files, workers,
                   embedVars, persistPc, sentRanges, loadFailed, embedFailed, prevClean>>

\* The range after the loop ends at the key it starts at.
TailRangeBounded(db_path) == [lo |-> <<db_path>>, hi |-> <<db_path>>]

\* (Bound::Included(db_path.to_string()), Bound::Unbounded)
TailRange(db_path) == [lo |-> <<db_path>>, hi |-> <<>>]

\* The scan task deletes the tail of the store itself instead of sending the range.
ScanTailDeletes ==
    /\ scanKind = "full"
    /\ scanPc = "loop"
    /\ scanIdx > Len(Files(worktree))
    /\ scanPc' = "done"
    /\ store' = IF dbPos <= Len(DbKeys)
                THEN DeleteRange(store, TailRange(DbKeys[dbPos]))
                ELSE store
    /\ UNCHANGED <<readerVars, inputVars, registry, runVars, snapshot, scanIdx, dbPos,
                   deletion_range, chanVars, workers, embedVars, persistPc, histVars>>

\* After the for loop: the open-ended range from the next unread key, then Ok(()).
ScanTail ==
    /\ scanKind = "full"
    /\ scanPc = "loop"
    /\ scanIdx > Len(Files(worktree))
    /\ IF dbPos <= Len(DbKeys)
       THEN \E ok \in TxnOutcomes :
               IF ok /\ ~PersistClosed
               THEN /\ Len(deleted_entry_ranges) < chanCap.deleted_entry_ranges
                    /\ deleted_entry_ranges' =
                           Append(deleted_entry_ranges, TailRange(DbKeys[dbPos]))
                    /\ sentRanges' = Append(sentRanges, TailRange(DbKeys[dbPos]))
                    /\ scanPc' = "done"
               ELSE \* db_entry? or send(..).await? returns the error
                    /\ scanPc' = "failed"
                    /\ UNCHANGED <<deleted_entry_ranges, sentRanges>>
       ELSE /\ scanPc' = "done"
            /\ UNCHANGED <<deleted_entry_ranges, sentRanges>>
    /\ UNCHANGED <<readerVars, inputVars, store, registry, runVars, snapshot, scanIdx, dbPos,
                   deletion_range, updated_entries, chunked_files, embedded_files,
                   workers, embedVars, persistPc, sentEntries, loadFailed, embedFailed,
                   prevClean>>

\* ------------------------------------------------------- incremental scanner
\* worktree.entry_for_id(*entry_id)
EntryForId(tree, id) ==
    IF SelectSeq(tree, LAMBDA e : e.id = id) = <<>> THEN None
    ELSE Some(SelectSeq(tree, LAMBDA e : e.id = id)[1])

\* The range of a removed path left open at its end.
RemovedRangeOpenEnd(path) ==
    [lo |-> <<db_key_for_path(path)>>, hi |-> <<>>]

\* (Bound::Included(db_path.clone()), Bound::Included(db_path))
RemovedRange(path) ==
    [lo |-> <<db_key_for_path(path)>>, hi |-> <<db_key_for_path(path)>>]

\* A Loaded change is handled like an update.
UpdateKindsWithLoaded == {"Added", "Updated", "AddedOrUpdated", "Loaded"}

UpdateKinds == {"Added", "Updated", "AddedOrUpdated"}

\* PathChange::Added | Updated | AddedOrUpdated: register the entry if it is a file.
ScanUpdatedChange ==
    /\ scanKind = "updated"
    /\ scanPc = "loop"
    /\ scanIdx <= Len(updated_set)
    /\ updated_set[scanIdx].status \in UpdateKinds
    /\ LET found == EntryForId(worktree, updated_set[scanIdx].id)
       IN IF found # None /\ found[1].is_file
          THEN /\ registry' = RegistryInsert(registry, found[1].id)
               /\ scanPc' = "send"
               /\ UNCHANGED scanIdx
          ELSE /\ scanIdx' = scanIdx + 1
               /\ UNCHANGED <<registry, scanPc>>
    /\ UNCHANGED <<readerVars, inputVars, store, runVars, snapshot, dbPos, deletion_range, chanVars,
                   workers, embedVars, persistPc, histVars>>

\* updated_entries_tx.send((entry.clone(), handle)).await
ScanUpdatedSend ==
    /\ scanKind = "updated"
    /\ scanPc = "send"
    /\ LET entry == EntryForId(worktree, updated_set[scanIdx].id)[1]
       IN IF ChunkClosed
          THEN \* the receiver is gone: the handle is dropped with the error
               /\ registry' = RegistryRemove(registry, entry.id)
               /\ scanPc' = "failed"
               /\ UNCHANGED <<updated_entries, sentEntries, scanIdx>>
          ELSE /\ Len(updated_entries) < chanCap.updated_entries
               /\ updated_entries' =
                      Append(updated_entries, [entry |-> entry, handle |-> entry.id])
               /\ sentEntries' = Append(sentEntries, entry)
               /\ scanIdx' = scanIdx + 1
               /\ scanPc' = "loop"
               /\ UNCHANGED registry
    /\ UNCHANGED <<readerVars, inputVars, store, runVars, snapshot, dbPos, deletion_range,
                   deleted_entry_ranges, chunked_files, embedded_files, workers,
                   embedVars, persistPc, sentRanges, loadFailed, embedFailed, prevClean>>

\* PathChange::Removed: the single-key range of the path.
ScanUpdatedRemoved ==
    /\ scanKind = "updated"
    /\ scanPc = "loop"
    /\ scanIdx <= Len(updated_set)
    /\ updated_set[scanIdx].status = "Removed"
    /\ IF PersistClosed
       THEN \* the receiver is gone: send(..).await? returns the error
            /\ scanPc' = "failed"
            /\ UNCHANGED <<deleted_entry_ranges, sentRanges, scanIdx>>
       ELSE /\ Len(deleted_entry_ranges) < chanCap.deleted_entry_ranges
            /\ deleted_entry_ranges' =
                   Append(deleted_entry_ranges, RemovedRange(updated_set[scanIdx].path))
            /\ sentRanges' = Append(sentRanges, RemovedRange(updated_set[scanIdx].path))
            /\ scanIdx' = scanIdx + 1
            /\ UNCHANGED scanPc
    /\ UNCHANGED <<readerVars, inputVars, store, registry, runVars, snapshot, dbPos,
                   deletion_range, updated_entries, chunked_files, embedded_files,
                   workers, embedVars, persistPc, sentEntries, loadFailed, embedFailed,
                   prevClean>>

\* PathChange::Loaded: do nothing.
ScanUpdatedLoaded ==
    /\ scanKind = "updated"
    /\ scanPc = "loop"
    /\ scanIdx <= Len(updated_set)
    /\ updated_set[scanIdx].status = "Loaded"
    /\ scanIdx' = scanIdx + 1
    /\ UNCHANGED <<readerVars, inputVars, store, registry, runVars, snapshot, scanPc, dbPos,
                   deletion_range, chanVars, workers, embedVars, persistPc, histVars>>

\* The change-set is exhausted: Ok(()).
ScanUpdatedDone ==
    /\ scanKind = "updated"
    /\ scanPc = "loop"
    /\ scanIdx > Len(updated_set)
    /\ scanPc' = "done"
    /\ UNCHANGED <<readerVars, inputVars, store, registry, runVars, snapshot, scanIdx, dbPos,
                   deletion_range, chanVars, workers, embedVars, persistPc, histVars>>

\* ----------------------------------------------------------------- chunker
\* ChunkedFile { chunks: chunk_text(&text, ..), handle, path, mtime, text }
ChunkedFileOf(item, text) ==
    [path |-> item.entry.path, mtime |-> item.entry.mtime, handle |-> item.handle,
     text |-> text, chunks |-> chunk_text(text)]

\* The file that failed to load goes on as a record without text.
SkipFileEmitsEmpty(w, item) ==
    /\ workers' = [workers EXCEPT ![w] =
           [pc |-> "send", file |-> Some(ChunkedFileOf(item, <<>>))]]
    /\ loadFailed' = loadFailed \cup {item.entry.path}
    /\ UNCHANGED registry

\* continue: the entry and its handle are dropped, nothing is sent.
SkipFile(w, item) ==
    /\ registry' = RegistryRemove(registry, item.handle)
    /\ loadFailed' = loadFailed \cup {item.entry.path}
    /\ UNCHANGED workers

\* entries.recv() and the load / conversion of the file: a failure skips the file.
WorkerRecv(w) ==
    /\ workers[w].pc = "recv"
    /\ updated_entries # <<>>
    /\ updated_entries' = Tail(updated_entries)
    /\ \E loaded \in BOOLEAN :
          LET item == Head(updated_entries)
          IN IF loaded
             THEN /\ workers' = [workers EXCEPT ![w] =
                         [pc |-> "send",
                          file |-> Some(ChunkedFileOf(item, FileText(item.entry.path)))]]
                  /\ UNCHANGED <<registry, loadFailed>>
             ELSE SkipFile(w, item)
    /\ UNCHANGED <<readerVars, inputVars, store, runVars, scanVars, deleted_entry_ranges, chunked_files,
                   embedded_files, embedVars, persistPc, sentEntries, sentRanges,
                   embedFailed, prevClean>>

\* chunked_files_tx.send(chunked_file).await
WorkerSend(w) ==
    /\ workers[w].pc = "send"
    /\ IF EmbedClosed
       THEN \* send(..).await.is_err(): the worker returns, the record is dropped
            /\ registry' = RegistryRemove(registry, workers[w].file[1].handle)
            /\ workers' = [workers EXCEPT ![w] = [pc |-> "done", file |-> None]]
            /\ UNCHANGED chunked_files
       ELSE /\ Len(chunked_files) < chanCap.chunked_files
            /\ chunked_files' = Append(chunked_files, workers[w].file[1])
            /\ workers' = [workers EXCEPT ![w] = [pc |-> "recv", file |-> None]]
            /\ UNCHANGED registry
    /\ UNCHANGED <<readerVars, inputVars, store, runVars, scanVars, updated_entries,
                   deleted_entry_ranges, embedded_files, embedVars, persistPc, histVars>>

\* entries.recv() fails: the channel is closed and empty.
WorkerExit(w) ==
    /\ workers[w].pc = "recv"
    /\ updated_entries = <<>>
    /\ ScanClosed
    /\ workers' = [workers EXCEPT ![w] = [pc |-> "done", file |-> None]]
    /\ UNCHANGED <<readerVars, inputVars, store, registry, runVars, scanVars, chanVars, embedVars,
                   persistPc, histVars>>

\* ---------------------------------------------------------------- embedder
\* What one call of the provider can give: the embeddings asked for, an error,
\* one embedding too few, one too many.
ProviderOutcomes == {"ok", "err", "short", "long"}

RECURSIVE Flatten(_)
\* The batch of files viewed as one vec of TextToEmbed.
Flatten(files) ==
    IF files = <<>> THEN <<>>
    ELSE [k \in 1..Len(Head(files).chunks) |->
            [text |-> ChunkSlice(Head(files).text, Head(files).chunks[k]),
             digest |-> Head(files).chunks[k].digest]]
         \o Flatten(Tail(files))

\* embedding_provider.embed(batch).await.log_err()
ProviderEmbed(batch, outcome) ==
    CASE outcome = "ok" -> Some([i \in 1..Len(batch) |-> EmbeddingOf(batch[i].text)])
      [] outcome = "short" -> Some([i \in 1..(Len(batch) - 1) |-> EmbeddingOf(batch[i].text)])
      [] outcome = "long" -> Some([i \in 1..(Len(batch) + 1) |->
                                      EmbeddingOf(batch[Min(i, Len(batch))].text)])
      [] OTHER -> None

\* A provider error leaves the sub-batch out of the flat sequence.
BatchEmbeddingsSkipOnError(batch, outcome) ==
    IF ProviderEmbed(batch, outcome) = None THEN <<>>
    ELSE IF Len(ProviderEmbed(batch, outcome)[1]) = Len(batch)
         THEN [i \in 1..Len(batch) |-> Some(ProviderEmbed(batch, outcome)[1][i])]
         ELSE [i \in 1..Len(batch) |-> None]

\* The embeddings the provider returned are used as far as they go.
BatchEmbeddingsUsesReturned(batch, outcome) ==
    IF ProviderEmbed(batch, outcome) = None THEN [i \in 1..Len(batch) |-> None]
    ELSE [i \in 1..Len(batch) |->
             IF i <= Len(ProviderEmbed(batch, outcome)[1])
             THEN Some(ProviderEmbed(batch, outcome)[1][i]) ELSE None]

\* One sub-batch: Some(embedding) per chunk, or None for each of its chunks.
BatchEmbeddings(batch, outcome) ==
    LET got == ProviderEmbed(batch, outcome)
    IN IF got # None /\ Len(got[1]) = Len(batch)
       THEN [i \in 1..Len(batch) |-> Some(got[1][i])]
       ELSE [i \in 1..Len(batch) |-> None]

\* The sub-batch a slot of the flat sequence belongs to.
SubBatchOf(k) == ((k - 1) \div ProviderBatchSize) + 1

NumSubBatches(chunks) == (Len(chunks) + ProviderBatchSize - 1) \div ProviderBatchSize

RECURSIVE AllEmbeddings(_, _, _)
\* for embedding_batch in chunks.chunks(batch_size): sub-batches b, b+1, ...
AllEmbeddings(chunks, outcomes, b) ==
    IF b > NumSubBatches(chunks) THEN <<>>
    ELSE BatchEmbeddings(
             SubSeq(chunks, (b - 1) * ProviderBatchSize + 1,
                    Min(b * ProviderBatchSize, Len(chunks))),
             outcomes[b])
         \o AllEmbeddings(chunks, outcomes, b + 1)

\* chunked_file_batches.next(): a micro-batch, embedded sub-batch by sub-batch.
EmbedBatch ==
    /\ embedPc = "wait"
    /\ chunked_files # <<>>
    /\ \E n \in 1..Min(Len(chunked_files), MicroBatchMax) :
          LET files == SubSeq(chunked_files, 1, n)
          IN /\ \E outcomes \in [1..NumSubBatches(Flatten(files)) ->
                                      {"ok"} \cup providerFaults] :
                   /\ embedResults' = AllEmbeddings(Flatten(files), outcomes, 1)
                   /\ slotOutcomes' = [k \in 1..Len(Flatten(files)) |->
                                           outcomes[SubBatchOf(k)]]
             /\ embedQueue' = files
             /\ chunked_files' = SubSeqOrEmpty(chunked_files, n + 1, Len(chunked_files))
    /\ embedPc' = "emit"
    /\ UNCHANGED <<readerVars, inputVars, store, registry, runVars, scanVars, updated_entries,
                   deleted_entry_ranges, embedded_files, workers, persistPc, histVars>>

\* chunks.into_iter().zip(embeddings.by_ref()): the pairs the zip yields.
ZipLen(chunked_file, embeddings) == Min(Len(chunked_file.chunks), Len(embeddings))

\* The zip pulls an embedding before it finds the chunks exhausted.
ZipConsumedWithProbe(chunked_file, embeddings) ==
    Min(Len(chunked_file.chunks) + 1, Len(embeddings))

\* The embeddings the zip takes off the shared iterator: zip asks the chunks
\* first and stops at their end without touching embeddings.by_ref().
ZipConsumed(chunked_file, embeddings) == ZipLen(chunked_file, embeddings)

\* Some chunk of the file got no embedding from the provider.
HasFailedChunk(chunked_file, embeddings) ==
    \E i \in 1..ZipLen(chunked_file, embeddings) : embeddings[i] = None

\* The flag follows the last chunk only.
EmbeddedLastChunk(chunked_file, embeddings) ==
    ZipLen(chunked_file, embeddings) = 0
        \/ embeddings[ZipLen(chunked_file, embeddings)] # None

\* The flag is never cleared.
EmbeddedFlagNeverCleared(chunked_file, embeddings) == TRUE

\* embedded_all_chunks
EmbeddedAllChunks(chunked_file, embeddings) ==
    \A i \in 1..ZipLen(chunked_file, embeddings) : embeddings[i] # None

RECURSIVE EmbeddedChunks(_, _, _)
EmbeddedChunks(chunked_file, embeddings, i) ==
    IF i > ZipLen(chunked_file, embeddings) THEN <<>>
    ELSE (IF embeddings[i] # None
          THEN <<[chunk |-> chunked_file.chunks[i], embedding |-> embeddings[i][1]]>>
          ELSE <<>>)
         \o EmbeddedChunks(chunked_file, embeddings, i + 1)

EmbeddedFileOf(chunked_file, embeddings) ==
    [path |-> chunked_file.path, mtime |-> chunked_file.mtime,
     chunks |-> EmbeddedChunks(chunked_file, embeddings, 1), text |-> chunked_file.text]

\* The records of the batch give up no handle.
HandlesOfNone(records) == {}

\* The handles of the records of a queue.
HandlesOf(records) == { records[i].handle : i \in 1..Len(records) }

\* One file of the reassembly loop: sent if every chunk embedded, else dropped.
\* The message is (embedded_file, handle); seen notes how many deletion ranges
\* had arrived at the persister's other channel when this message arrived.
EmbedEmit ==
    /\ embedPc = "emit"
    /\ LET chunked_file == Head(embedQueue)
       IN /\ embedFailed' = IF HasFailedChunk(chunked_file, embedResults)
                            THEN embedFailed \cup {chunked_file.path}
                            ELSE embedFailed
          /\ IF EmbeddedAllChunks(chunked_file, embedResults) /\ PersistClosed
             THEN \* send(..).await? returns the error: the batch is dropped
                  /\ registry' = registry \ HandlesOf(embedQueue)
                  /\ embedQueue' = <<>>
                  /\ embedResults' = <<>>
                  /\ slotOutcomes' = <<>>
                  /\ embedPc' = "failed"
                  /\ UNCHANGED embedded_files
             ELSE /\ IF EmbeddedAllChunks(chunked_file, embedResults)
                     THEN /\ Len(embedded_files) < chanCap.embedded_files
                          /\ embedded_files' = Append(embedded_files,
                                 [file |-> EmbeddedFileOf(chunked_file, embedResults),
                                  handle |-> chunked_file.handle,
                                  seen |-> Len(sentRanges)])
                          /\ UNCHANGED registry
                     ELSE /\ registry' = RegistryRemove(registry, chunked_file.handle)
                          /\ UNCHANGED embedded_files
                  /\ embedResults' = SubSeqOrEmpty(embedResults,
                         ZipConsumed(chunked_file, embedResults) + 1, Len(embedResults))
                  /\ embedQueue' = Tail(embedQueue)
                  /\ slotOutcomes' = SubSeqOrEmpty(slotOutcomes,
                         Len(chunked_file.chunks) + 1, Len(slotOutcomes))
                  /\ embedPc' = IF Tail(embedQueue) = <<>> THEN "wait" ELSE "emit"
    /\ UNCHANGED <<readerVars, inputVars, store, runVars, scanVars, updated_entries,
                   deleted_entry_ranges, chunked_files, workers, persistPc,
                   sentEntries, sentRanges, loadFailed, prevClean>>

\* chunked_file_batches.next() yields None: the channel is closed and empty.
EmbedExit ==
    /\ embedPc = "wait"
    /\ chunked_files = <<>>
    /\ ChunkClosed
    /\ embedPc' = "done"
    /\ UNCHANGED <<readerVars, inputVars, store, registry, runVars, scanVars, chanVars, workers,
                   embedQueue, embedResults, slotOutcomes, persistPc, histVars>>

\* --------------------------------------------------------------- persister
\* write_txn()?, the write, commit()?: the written store, or on an error the
\* store as it was, the transaction being dropped uncommitted.
TxnCommit(db, written, ok) == IF ok THEN written ELSE db

\* select_biased!, first arm: a deletion range is ready.
PersistDeletion ==
    /\ persistPc = "run"
    /\ deleted_entry_ranges # <<>>
    /\ deleted_entry_ranges' = Tail(deleted_entry_ranges)
    /\ \E ok \in TxnOutcomes :
          /\ store' = TxnCommit(store, DeleteRange(store, Head(deleted_entry_ranges)), ok)
          /\ persistPc' = IF ok THEN "run" ELSE "failed"
    /\ UNCHANGED <<readerVars, inputVars, registry, runVars, scanVars, updated_entries, chunked_files,
                   embedded_files, workers, embedVars, histVars>>

\* select_biased!, second arm: an embedded file is ready and no range is.
PersistFile ==
    /\ persistPc = "run"
    /\ deleted_entry_ranges = <<>>
    /\ embedded_files # <<>>
    /\ LET item == Head(embedded_files)
       IN /\ \E ok \in TxnOutcomes :
                /\ store' = TxnCommit(store,
                                Put(store, db_key_for_path(item.file.path), item.file), ok)
                /\ persistPc' = IF ok THEN "run" ELSE "failed"
          /\ registry' = RegistryRemove(registry, item.handle)
    /\ embedded_files' = Tail(embedded_files)
    /\ UNCHANGED <<readerVars, inputVars, runVars, scanVars, updated_entries, deleted_entry_ranges,
                   chunked_files, workers, embedVars, histVars>>

\* One of the two streams is terminated.
EitherStreamTerminated ==
    \/ deleted_entry_ranges = <<>> /\ ScanClosed
    \/ embedded_files = <<>> /\ EmbedClosed

\* The stream of deletion ranges alone is terminated.
DeletionStreamTerminated == deleted_entry_ranges = <<>> /\ ScanClosed

\* select_biased! complete: both streams are terminated, closed and drained.
BothStreamsTerminated ==
    /\ deleted_entry_ranges = <<>> /\ ScanClosed
    /\ embedded_files = <<>> /\ EmbedClosed

\* complete => break, then Ok(()).
PersistExit ==
    /\ persistPc = "run"
    /\ BothStreamsTerminated
    /\ persistPc' = "done"
    /\ UNCHANGED <<readerVars, inputVars, store, registry, runVars, scanVars, chanVars, workers,
                   embedVars, histVars>>

\* ------------------------------------------------------------ composite run
\* The scan task alone has returned Ok(()).
RunDoneAtScanEnd == scanPc = "done"

\* The four tasks have returned Ok(()).
RunDone == scanPc = "done" /\ ChunkClosed /\ embedPc = "done" /\ persistPc = "done"

\* Only the error of the persister is looked at.
PersistFailedOnly == persistPc = "failed"

\* One of the tasks has returned an error; the chunk task returns Ok(()) only.
StageFailed == scanPc = "failed" \/ embedPc = "failed" \/ persistPc = "failed"

\* The entry the scanner holds a handle of while it sends.
ScanEntry ==
    IF scanKind = "full" THEN Files(worktree)[scanIdx]
    ELSE EntryForId(worktree, updated_set[scanIdx].id)[1]

\* Only the handles of the records that wait in a channel.
HandlesInChannels ==
    [i \in 1..Len(updated_entries) |-> updated_entries[i].handle]
    \o [i \in 1..Len(chunked_files) |-> chunked_files[i].handle]
    \o [i \in 1..Len(embedded_files) |-> embedded_files[i].handle]

\* The handles held by a record in a channel or in the hands of a stage.
InFlightHandles ==
    (IF scanPc = "send" THEN <<ScanEntry.id>> ELSE <<>>)
    \o [i \in 1..Len(updated_entries) |-> updated_entries[i].handle]
    \o [i \in 1..Len(SelectSeq([w \in Workers |-> workers[w]],
                               LAMBDA x : x.file # None)) |->
           SelectSeq([w \in Workers |-> workers[w]],
                     LAMBDA x : x.file # None)[i].file[1].handle]
    \o [i \in 1..Len(chunked_files) |-> chunked_files[i].handle]
    \o [i \in 1..Len(embedQueue) |-> embedQueue[i].handle]
    \o [i \in 1..Len(embedded_files) |-> embedded_files[i].handle]

\* The tasks of the composite future are dropped: those still running are
\* cancelled, the channels go with them, every handle they hold is released.
DropTasks ==
    /\ scanPc' = IF ScanClosed THEN scanPc ELSE "cancelled"
    /\ workers' = [w \in Workers |->
                      [pc |-> IF workers[w].pc = "done" THEN "done" ELSE "cancelled",
                       file |-> None]]
    /\ embedPc' = IF EmbedClosed THEN embedPc ELSE "cancelled"
    /\ persistPc' = IF PersistClosed THEN persistPc ELSE "cancelled"
    /\ updated_entries' = <<>>
    /\ deleted_entry_ranges' = <<>>
    /\ chunked_files' = <<>>
    /\ embedded_files' = <<>>
    /\ embedQueue' = <<>>
    /\ embedResults' = <<>>
    /\ slotOutcomes' = <<>>
    /\ registry' = registry \ { InFlightHandles[i] : i \in 1..Len(InFlightHandles) }

\* try_join! finds the four tasks finished with Ok: the future resolves to Ok(()).
JoinOk ==
    /\ composite = "pending"
    /\ RunDone
    /\ composite' = "ok"
    /\ UNCHANGED <<readerVars, inputVars, store, registry, run, droppedBefore, scanVars, chanVars, workers,
                   embedVars, persistPc, histVars>>

\* try_join! finds a task finished with Err: the future resolves to that error
\* and the tasks are dropped with it.
JoinErr ==
    /\ composite = "pending"
    /\ StageFailed
    /\ composite' = "err"
    /\ DropTasks
    /\ UNCHANGED <<readerVars, inputVars, store, run, droppedBefore, snapshot, scanIdx, dbPos, deletion_range,
                   histVars>>

\* The caller drops the composite future before it has resolved.
Cancel ==
    /\ composite = "pending"
    /\ composite' = "cancelled"
    /\ DropTasks
    /\ UNCHANGED <<readerVars, inputVars, store, run, droppedBefore, snapshot, scanIdx, dbPos, deletion_range,
                   histVars>>

RunClean == loadFailed = {} /\ embedFailed = {}

\* The caller runs index_entries_changed_on_disk again on the unchanged tree;
\* noted are the paths to remember as dropped by the embedder in the run before.
NextRunStarts(noted) ==
    /\ composite = "ok"
    /\ run < MaxRuns
    /\ run' = run + 1
    /\ composite' = "pending"
    /\ prevClean' = (prevClean /\ RunClean)
    /\ droppedBefore' = noted
    /\ scanPc' = "start"
    /\ scanIdx' = 1
    /\ dbPos' = 1
    /\ deletion_range' = None
    /\ snapshot' = << >>
    /\ workers' = [w \in Workers |-> [pc |-> "recv", file |-> None]]
    /\ embedPc' = "wait"
    /\ persistPc' = "run"
    /\ sentEntries' = <<>>
    /\ sentRanges' = <<>>
    /\ loadFailed' = {}
    /\ embedFailed' = {}
    /\ UNCHANGED <<readerVars, inputVars, store, registry, chanVars, embedQueue, embedResults,
                   slotOutcomes>>

StartNextRun == NextRunStarts({})

\* The same step, with the files the embedder dropped kept in mind.
StartNextRunNoted == NextRunStarts(embedFailed)

Next ==
    \/ ScanBegin
    \/ ScanMerge
    \/ ScanEqual
    \/ ScanSend
    \/ ScanTail
    \/ \E w \in Workers : WorkerRecv(w)
    \/ \E w \in Workers : WorkerSend(w)
    \/ \E w \in Workers : WorkerExit(w)
    \/ EmbedBatch
    \/ EmbedEmit
    \/ EmbedExit
    \/ PersistDeletion
    \/ PersistFile
    \/ PersistExit
    \/ JoinOk

\* One call of index_entries_changed_on_disk, the storage layer in order.
Spec == Init /\ [][Next]_vars

\* Calls of index_entries_changed_on_disk one after the other on the same tree.
NextRerun ==
    \/ Next
    \/ StartNextRun

SpecRerun == Init /\ [][NextRerun]_vars

\* The scan task of scan_entries alone, its two receivers not yet read.
NextScan ==
    \/ ScanBegin
    \/ ScanMerge
    \/ ScanEqual
    \/ ScanSend
    \/ ScanTail

SpecScan == InitScan /\ [][NextScan]_vars

\* ------------------------------------------------- index_updated_entries run
\* The paths the change-sets of the incremental runs name: "a/b" and "b".
UpdatedPaths == { <<97, 47, 98>>, <<98>> }

PathChanges == {"Added", "Removed", "Updated", "AddedOrUpdated", "Loaded"}

ChangeItems ==
    { [path |-> p, id |-> EntryId(p), status |-> c] : p \in UpdatedPaths, c \in PathChanges }

ChangeSets == UNION { [1..n -> ChangeItems] : n \in 0..MaxChanges }

\* A tree over S whose entries in D are directories.
TreeOf(S, D) ==
    [i \in 1..Cardinality(S) |->
        [id |-> EntryId(SortPaths(S)[i]), path |-> SortPaths(S)[i],
         mtime |-> Some(1), is_file |-> SortPaths(S)[i] \notin D]]

UpdatedTrees ==
    UNION { { TreeOf(S, D) : D \in SUBSET S } : S \in SUBSET UpdatedPaths }

UpdatedStores == { StoreOf(S, [p \in S |-> None]) : S \in SUBSET UpdatedPaths }

InitUpdated ==
    /\ worktree \in UpdatedTrees
    /\ scanKind = "updated"
    /\ updated_set \in ChangeSets
    /\ store \in UpdatedStores
    /\ registry = {}
    /\ storeFaulty = FALSE
    /\ chanCap = BoundedCaps
    /\ providerFaults = {"err"}
    /\ run = 1
    /\ composite = "pending"
    /\ droppedBefore = {}
    /\ prevClean = TRUE
    /\ snapshot = << >>
    /\ scanPc = "loop"
    /\ scanIdx = 1
    /\ dbPos = 1
    /\ deletion_range = None
    /\ updated_entries = <<>>
    /\ deleted_entry_ranges = <<>>
    /\ chunked_files = <<>>
    /\ embedded_files = <<>>
    /\ workers = [w \in Workers |-> [pc |-> "recv", file |-> None]]
    /\ embedPc = "wait"
    /\ embedQueue = <<>>
    /\ embedResults = <<>>
    /\ slotOutcomes = <<>>
    /\ readerPc = "idle"
    /\ readerSnap = << >>
    /\ readerOut = <<>>
    /\ lookup = None
    /\ persistPc = "run"
    /\ sentEntries = <<>>
    /\ sentRanges = <<>>
    /\ loadFailed = {}
    /\ embedFailed = {}

NextUpdated ==
    \/ ScanUpdatedChange
    \/ ScanUpdatedSend
    \/ ScanUpdatedRemoved
    \/ ScanUpdatedLoaded
    \/ ScanUpdatedDone
    \/ \E w \in Workers : WorkerRecv(w)
    \/ \E w \in Workers : WorkerSend(w)
    \/ \E w \in Workers : WorkerExit(w)
    \/ EmbedBatch
    \/ EmbedEmit
    \/ EmbedExit
    \/ PersistDeletion
    \/ PersistFile
    \/ PersistExit
    \/ JoinOk

SpecUpdated == InitUpdated /\ [][NextUpdated]_vars

\* ------------------------------------------- a run on a failing storage layer
\* The paths of the runs in which a storage call may fail: "a/b", "b" and "c".
FaultyPaths == { <<97, 47, 98>>, <<98>>, <<99>> }

FaultyListings == { Listing(S, [p \in S |-> Some(1)]) : S \in SUBSET FaultyPaths }

FaultyStores == { StoreOf(S, [p \in S |-> None]) : S \in SUBSET FaultyPaths }

InitFaulty ==
    /\ worktree \in FaultyListings
    /\ scanKind = "full"
    /\ updated_set = <<>>
    /\ store \in FaultyStores
    /\ registry = {}
    /\ storeFaulty = TRUE
    /\ chanCap = BoundedCaps
    /\ providerFaults = {"err"}
    /\ run = 1
    /\ composite = "pending"
    /\ droppedBefore = {}
    /\ prevClean = TRUE
    /\ FreshStages

NextFaulty ==
    \/ Next
    \/ JoinErr

\* One call of index_entries_changed_on_disk, any storage call of which may fail.
SpecFaulty == InitFaulty /\ [][NextFaulty]_vars

NextCancelled ==
    \/ NextFaulty
    \/ Cancel

\* The same call, which its caller may drop at any point before it resolves.
SpecCancelled == InitFaulty /\ [][NextCancelled]_vars

\* ------------------------------------------------------ the embed task alone
\* The queues of chunked files the chunker can leave to the embedder: files of
\* the tree, each once, in any order.
EmbedInputs ==
    UNION { { q \in [1..n -> Paths] : \A i, j \in 1..n : q[i] = q[j] => i = j } :
            n \in 0..(MaxLive + 1) }

\* The scan and chunk tasks have returned, every file of the tree is chunked and
\* waits on chunked_files; the persister has not yet read its channels.
InitEmbed ==
    \E q \in EmbedInputs :
        LET tree == Listing({ q[i] : i \in 1..Len(q) },
                            [p \in { q[i] : i \in 1..Len(q) } |-> Some(1)])
        IN /\ worktree = tree
           /\ scanKind = "full"
           /\ updated_set = <<>>
           /\ storeFaulty = FALSE
           /\ chanCap = BoundedCaps
           /\ providerFaults = ProviderOutcomes \ {"ok"}
           /\ store = << >>
           /\ registry = { EntryId(q[i]) : i \in 1..Len(q) }
           /\ run = 1
           /\ composite = "pending"
           /\ droppedBefore = {}
           /\ prevClean = TRUE
           /\ snapshot = << >>
           /\ scanPc = "done"
           /\ scanIdx = Len(tree) + 1
           /\ dbPos = 1
           /\ deletion_range = None
           /\ updated_entries = <<>>
           /\ deleted_entry_ranges = <<>>
           /\ chunked_files =
                  [i \in 1..Len(q) |->
                      ChunkedFileOf([entry |-> EntryForId(tree, EntryId(q[i]))[1],
                                     handle |-> EntryId(q[i])],
                                    FileText(q[i]))]
           /\ embedded_files = <<>>
           /\ workers = [w \in Workers |-> [pc |-> "done", file |-> None]]
           /\ embedPc = "wait"
           /\ embedQueue = <<>>
           /\ embedResults = <<>>
           /\ slotOutcomes = <<>>
           /\ readerPc = "idle"
           /\ readerSnap = << >>
           /\ readerOut = <<>>
           /\ lookup = None
           /\ persistPc = "run"
           /\ sentEntries = tree
           /\ sentRanges = <<>>
           /\ loadFailed = {}
           /\ embedFailed = {}

NextEmbed ==
    \/ EmbedBatch
    \/ EmbedEmit
    \/ EmbedExit

SpecEmbed == InitEmbed /\ [][NextEmbed]_vars

\* ----------------------------------------------- the queries, during a run
\* connection.read_txn(): the committed state of the database at this moment.
read_txn(db) == db

\* The iterator reads the database as it is when each item is fetched.
PathsViewLive == store

\* db.iter(&tx): the iterator reads through the one read transaction.
PathsView == readerSnap

\* paths(): the read transaction is opened.
PathsBegin ==
    /\ readerPc = "idle"
    /\ readerPc' = "iter"
    /\ readerSnap' = read_txn(store)
    /\ readerOut' = <<>>
    /\ UNCHANGED <<pipelineVars, lookup>>

\* .map(|entry| Ok(entry?.1.path.clone())): the next item of the iterator.
PathsNext ==
    /\ readerPc = "iter"
    /\ Len(readerOut) < Len(SortKeys(DOMAIN PathsView))
    /\ readerOut' = Append(readerOut,
                           PathsView[SortKeys(DOMAIN PathsView)[Len(readerOut) + 1]].path)
    /\ UNCHANGED <<pipelineVars, readerPc, readerSnap, lookup>>

\* The iterator is exhausted: drop(tx); result
PathsEnd ==
    /\ readerPc = "iter"
    /\ Len(readerOut) >= Len(SortKeys(DOMAIN PathsView))
    /\ readerPc' = "done"
    /\ UNCHANGED <<pipelineVars, readerSnap, readerOut, lookup>>

\* chunks_for_path(path) on the database as it is at this moment.
ChunksForPath ==
    /\ lookup = None
    /\ \E path \in Paths :
          lookup' = Some([path |-> path, db |-> read_txn(store),
                          result |-> chunks_for_path(read_txn(store), path)])
    /\ UNCHANGED <<pipelineVars, readerPc, readerSnap, readerOut>>

\* A run on the three paths "a/b", "b" and "c", the storage layer in order.
InitReader ==
    /\ worktree \in FaultyListings
    /\ scanKind = "full"
    /\ updated_set = <<>>
    /\ store \in FaultyStores
    /\ registry = {}
    /\ storeFaulty = FALSE
    /\ chanCap = BoundedCaps
    /\ providerFaults = {"err"}
    /\ run = 1
    /\ composite = "pending"
    /\ droppedBefore = {}
    /\ prevClean = TRUE
    /\ FreshStages

NextReader ==
    \/ Next
    \/ PathsBegin
    \/ PathsNext
    \/ PathsEnd

\* One call of paths() while a run of the pipeline is under way.
SpecReader == InitReader /\ [][NextReader]_vars

NextRetry ==
    \/ Next
    \/ StartNextRunNoted

\* Full scans of the unchanged tree run one after the other, as SpecRerun, on
\* the three paths.
SpecRetry == InitReader /\ [][NextRetry]_vars

NextLookup ==
    \/ Next
    \/ ChunksForPath

\* One call of chunks_for_path while a run of the pipeline is under way.
SpecLookup == InitReader /\ [][NextLookup]_vars

NextQueries ==
    \/ Next
    \/ PathsBegin
    \/ PathsNext
    \/ PathsEnd
    \/ ChunksForPath

\* A run on at most two of the three paths.
InitQueries == InitReader /\ Len(worktree) <= 2

\* A run of the pipeline with one call of paths() and one of chunks_for_path
\* under way.
SpecQueries == InitQueries /\ [][NextQueries]_vars

\* The file "a/b", whose text is empty, and the file "c".
EmptyFileLive == { <<97, 47, 98>>, <<99>> }

\* The paths of the records of earlier runs: "a", whose key sorts before that of
\* "a/b", and "a/b", "b" and "c".
EmptyFileStored == { <<97>>, <<97, 47, 98>>, <<98>>, <<99>> }

EmptyFileListings == { Listing(S, [p \in S |-> Some(1)]) : S \in SUBSET EmptyFileLive }

EmptyFileStores == { StoreOf(S, [p \in S |-> None]) : S \in SUBSET EmptyFileStored }

InitEmptyFile ==
    /\ worktree \in EmptyFileListings
    /\ scanKind = "full"
    /\ updated_set = <<>>
    /\ store \in EmptyFileStores
    /\ registry = {}
    /\ storeFaulty = FALSE
    /\ chanCap = BoundedCaps
    /\ providerFaults = {"err"}
    /\ run = 1
    /\ composite = "pending"
    /\ droppedBefore = {}
    /\ prevClean = TRUE
    /\ FreshStages

\* Full scans of the unchanged tree run one after the other on a tree that holds
\* a file without chunks.
SpecEmptyFile == InitEmptyFile /\ [][NextRetry]_vars

\* ------------------------------------------- a run on channels that fill up
\* Either kind of run, on channels scaled down so that the senders block.
InitTight ==
    /\ \/ /\ scanKind = "full"
          /\ worktree \in FaultyListings
          /\ updated_set = <<>>
          /\ store \in FaultyStores
          /\ scanPc = "start"
       \/ /\ scanKind = "updated"
          /\ worktree \in { TreeOf(S, {}) : S \in SUBSET UpdatedPaths }
          /\ updated_set \in ChangeSets
          /\ store \in UpdatedStores
          /\ scanPc = "loop"
    /\ chanCap = TightCaps
    /\ providerFaults = {"err"}
    /\ registry = {}
    /\ storeFaulty = FALSE
    /\ run = 1
    /\ composite = "pending"
    /\ droppedBefore = {}
    /\ prevClean = TRUE
    /\ scanIdx = 1
    /\ dbPos = 1
    /\ deletion_range = None
    /\ snapshot = << >>
    /\ updated_entries = <<>>
    /\ deleted_entry_ranges = <<>>
    /\ chunked_files = <<>>
    /\ embedded_files = <<>>
    /\ workers = [w \in Workers |-> [pc |-> "recv", file |-> None]]
    /\ embedPc = "wait"
    /\ embedQueue = <<>>
    /\ embedResults = <<>>
    /\ slotOutcomes = <<>>
    /\ readerPc = "idle"
    /\ readerSnap = << >>
    /\ readerOut = <<>>
    /\ lookup = None
    /\ persistPc = "run"
    /\ sentEntries = <<>>
    /\ sentRanges = <<>>
    /\ loadFailed = {}
    /\ embedFailed = {}

NextTight ==
    \/ Next
    \/ ScanUpdatedChange
    \/ ScanUpdatedSend
    \/ ScanUpdatedRemoved
    \/ ScanUpdatedLoaded
    \/ ScanUpdatedDone

SpecTight == InitTight /\ [][NextTight]_vars

\* The steps of each task and of the composite future.
ScanStep == ScanBegin \/ ScanMerge \/ ScanEqual \/ ScanSend \/ ScanTail

ScanUpdatedStep ==
    ScanUpdatedChange \/ ScanUpdatedSend \/ ScanUpdatedRemoved \/ ScanUpdatedLoaded
        \/ ScanUpdatedDone

WorkerStep(w) == WorkerRecv(w) \/ WorkerSend(w) \/ WorkerExit(w)

EmbedStep == EmbedBatch \/ EmbedEmit \/ EmbedExit

PersistStep == PersistDeletion \/ PersistFile \/ PersistExit

JoinStep == JoinOk \/ JoinErr

\* The executor polls every task that can make a step, and the caller awaits the
\* composite future.
SpecFaultyFair ==
    /\ SpecFaulty
    /\ WF_vars(ScanStep)
    /\ \A w \in Workers : WF_vars(WorkerStep(w))
    /\ WF_vars(EmbedStep)
    /\ WF_vars(PersistStep)
    /\ WF_vars(JoinStep)

\* The executor polls every task that can make a step, a task blocked on a full
\* channel as soon as there is room, and the caller awaits the composite future.
SpecTightFair ==
    /\ SpecTight
    /\ WF_vars(ScanStep)
    /\ WF_vars(ScanUpdatedStep)
    /\ \A w \in Workers : WF_vars(WorkerStep(w))
    /\ WF_vars(EmbedStep)
    /\ WF_vars(PersistStep)
    /\ WF_vars(JoinOk)

\* ================================================================== claims
LiveFiles == { Files(worktree)[i] : i \in 1..Len(Files(worktree)) }
LiveKeys == { db_key_for_path(e.path) : e \in LiveFiles }
SentRangeSet == { sentRanges[i] : i \in 1..Len(sentRanges) }
SentEntrySet == { sentEntries[i] : i \in 1..Len(sentEntries) }

\* C1: when a full indexing run has completed and no file of it failed to load
\* or to embed, the keys of the store are exactly the keys of the live files and
\* every stored record carries its live file's modification token.
C1_StoreEqualsLive ==
    (RunDone /\ RunClean) =>
        /\ DOMAIN store = LiveKeys
        /\ \A e \in LiveFiles :
               db_key_for_path(e.path) \in DOMAIN store
                   => store[db_key_for_path(e.path)].mtime = e.mtime

\* C2: when the scan task has finished, every stored key that has no live file
\* lies in one of the deletion ranges the scan emitted.
C2_StaleKeysCovered ==
    ScanClosed =>
        \A k \in DOMAIN snapshot :
            k \notin LiveKeys => \E r \in SentRangeSet : InRange(k, r)

\* C3: no emitted deletion range, and no range still open in the scanner,
\* contains a stored key whose path is in the live listing.
C3_NoLiveStoredKeyInRange ==
    /\ \A r \in SentRangeSet : \A k \in DOMAIN snapshot :
           InRange(k, r) => k \notin LiveKeys
    /\ deletion_range # None =>
           \A k \in DOMAIN snapshot : InRange(k, deletion_range[1]) => k \notin LiveKeys

\* A bounded range was emitted in front of a stored key that has a live file.
C3_Witness ==
    /\ ScanClosed
    /\ \E r \in SentRangeSet : r.hi # <<>>
    /\ \E k \in DOMAIN snapshot : k \in LiveKeys

\* C4: when the scan task has finished, the files emitted on updated_entries are
\* exactly the live files with no stored record or with a stored modification
\* token that differs from their own.
C4_EmitsExactlyChanged ==
    ScanClosed =>
        SentEntrySet =
            { e \in LiveFiles :
                \/ db_key_for_path(e.path) \notin DOMAIN snapshot
                \/ snapshot[db_key_for_path(e.path)].mtime # e.mtime }

\* C5: a full run that follows runs in which every file loaded and embedded, on
\* an unchanged tree, emits nothing on updated_entries.
C5_SecondScanEmitsNothing ==
    (run >= 2 /\ prevClean) => sentEntries = <<>>

\* C6: in every state, the chunk list of every stored record is the complete
\* list for the record's text: one embedded chunk per chunk of the chunker, in
\* order, each with the embedding of its text.
C6_StoredChunkListsComplete ==
    \A k \in DOMAIN store : store[k].chunks = EmbedAll(store[k].text)

\* A record of three chunks written by a run in which another file was dropped.
C6_Witness ==
    /\ embedFailed # {}
    /\ \E k \in DOMAIN store : store[k].text # OldText /\ Len(store[k].chunks) = 3

\* C7 as stated: after a run, the store holds no record under the path of a file
\* one of whose chunks failed to embed in that run.
C7_FailedFileAbsent ==
    RunDone => \A p \in embedFailed : db_key_for_path(p) \notin DOMAIN store

\* C7 amended: after a run, the store holds under the path of such a file either
\* no record or the record that was there when the run began.
C7_FailedFileNotWritten ==
    RunDone =>
        \A p \in embedFailed :
            db_key_for_path(p) \in DOMAIN store =>
                /\ db_key_for_path(p) \in DOMAIN snapshot
                /\ store[db_key_for_path(p)] = snapshot[db_key_for_path(p)]

\* A run has ended with the old record of a dropped file still in the store.
C7_Witness ==
    /\ RunDone
    /\ \E p \in embedFailed : db_key_for_path(p) \in DOMAIN store

\* C8: a step of the persister that applies a deletion range removes the keys k
\* with start <= k (and k <= end when the end is bounded), and leaves every other
\* key with its record.
C8_DeletionRemovesExactlyRange ==
    [][(persistPc = "run" /\ deleted_entry_ranges # <<>>
            /\ deleted_entry_ranges' = Tail(deleted_entry_ranges))
        => \A k \in AllKeys :
              /\ k \in DOMAIN store' <=>
                    /\ k \in DOMAIN store
                    /\ ~(/\ StrLeq(Head(deleted_entry_ranges).lo[1], k)
                         /\ \/ Head(deleted_entry_ranges).hi = <<>>
                            \/ StrLeq(k, Head(deleted_entry_ranges).hi[1]))
              /\ k \in DOMAIN store' => store'[k] = store[k]]_vars

\* An open-ended range has been applied: a key at or above its start is gone and
\* a key below its start is still stored.
C8_Witness ==
    /\ ScanClosed
    /\ deleted_entry_ranges = <<>>
    /\ \E r \in SentRangeSet :
          /\ r.hi = <<>>
          /\ \E k \in DOMAIN snapshot : StrLeq(r.lo[1], k) /\ k \notin DOMAIN store
          /\ \E k \in DOMAIN snapshot : StrLess(k, r.lo[1]) /\ k \in DOMAIN store

C10_RemovedEmitsSingleKeyRange ==
    [][scanKind = "updated" =>
        IF /\ scanPc = "loop" /\ scanIdx <= Len(updated_set)
           /\ updated_set[scanIdx].status = "Removed"
           /\ scanIdx' = scanIdx + 1
        THEN /\ sentRanges' = Append(sentRanges,
                    [lo |-> <<db_key_for_path(updated_set[scanIdx].path)>>,
                     hi |-> <<db_key_for_path(updated_set[scanIdx].path)>>])
             /\ Len(deleted_entry_ranges') = Len(deleted_entry_ranges) + 1
             /\ deleted_entry_ranges'[Len(deleted_entry_ranges')] =
                    sentRanges'[Len(sentRanges')]
             /\ sentEntries' = sentEntries
             /\ updated_entries' = updated_entries
             /\ registry' = registry
        ELSE sentRanges' = sentRanges]_vars

\* An incremental scan has processed a Removed change of "a/b".
C10_Witness ==
    /\ scanKind = "updated"
    /\ ScanClosed
    /\ \E i \in 1..Len(updated_set) :
          updated_set[i].status = "Removed" /\ updated_set[i].path = <<97, 47, 98>>
    /\ [lo |-> <<<<97, 0, 98>>>>, hi |-> <<<<97, 0, 98>>>>] \in SentRangeSet

\* The changes among the first n of the change-set that name a file of the tree
\* as added or updated, as the entries of those files, in change-set order.
RECURSIVE FilesChanged(_)
FilesChanged(n) ==
    IF n = 0 THEN <<>>
    ELSE FilesChanged(n - 1)
         \o (IF updated_set[n].status \in {"Added", "Updated", "AddedOrUpdated"}
                   /\ EntryForId(worktree, updated_set[n].id) # None
                   /\ EntryForId(worktree, updated_set[n].id)[1].is_file
             THEN <<EntryForId(worktree, updated_set[n].id)[1]>>
             ELSE <<>>)

\* C11: in an incremental scan the files emitted on updated_entries are exactly
\* the files of the Added, Updated and AddedOrUpdated changes handled so far, in
\* change-set order; the step that takes up such a change registers the entry
\* of the file it is about to emit; a step of the scan over a Loaded change
\* leaves the registry and both streams as they were.
C11_UpdatesEmittedLoadedIgnored ==
    /\ [](/\ sentEntries = FilesChanged(scanIdx - 1)
          /\ scanPc = "send" =>
                 /\ FilesChanged(scanIdx) # FilesChanged(scanIdx - 1)
                 /\ ScanEntry = FilesChanged(scanIdx)[Len(FilesChanged(scanIdx))])
    /\ [][(scanPc = "loop" /\ scanPc' = "send")
              => updated_set[scanIdx].id \in registry']_vars
    /\ [][(scanIdx' # scanIdx /\ updated_set[scanIdx].status = "Loaded")
              => UNCHANGED <<registry, updated_entries, deleted_entry_ranges,
                             sentEntries, sentRanges>>]_vars

\* A Loaded change has been passed over and the file of a later change emitted.
C11_Witness ==
    /\ scanPc = "done"
    /\ Len(updated_set) = 2
    /\ updated_set[1].status = "Loaded"
    /\ updated_set[2].status = "AddedOrUpdated"
    /\ Len(sentEntries) = 1
    /\ sentEntries[1].id = updated_set[2].id
\* The number of records in flight that hold a handle of the entry.
HeldCopies(id) == Len(SelectSeq(InFlightHandles, LAMBDA h : h = id))

\* C12: over full scans run one after the other, the next started when the one
\* before has resolved, the registry is empty when a scan starts and no entry
\* has its handle held by two records in flight at once.
C12_RerunsNeverOverlap ==
    /\ (run >= 2 /\ scanPc = "start") => (registry = {} /\ InFlightHandles = <<>>)
    /\ \A e \in LiveFiles : HeldCopies(e.id) <= 1

\* The second scan holds the handle of the one file, which the first scan had
\* registered too and the chunker had skipped.
C12_Witness ==
    /\ run = 2
    /\ ~prevClean
    /\ Len(worktree) = 1
    /\ registry = {worktree[1].id}
    /\ HeldCopies(worktree[1].id) = 1
\* C13: at any time at most one record in flight holds a handle of a given
\* entry of the tree: the scanner emits no file of which a record is already
\* in a channel or in the hands of a stage.
C13_AtMostOneInFlight ==
    \A i \in 1..Len(worktree) : HeldCopies(worktree[i].id) <= 1
\* C14: every handle held by a record in a channel or in the hands of the
\* scanner, a chunker worker, the embedder or the persister is in the registry;
\* so when the registry is empty no record is in flight.
C14_InFlightIsRegistered ==
    /\ \A i \in 1..Len(InFlightHandles) : InFlightHandles[i] \in registry
    /\ registry = {} => InFlightHandles = <<>>
\* The indexing run has ended: its composite future has resolved.
RunEnded == composite # "pending"

\* C15: an entry that is in the registry is eventually out of it, whether its
\* file is persisted, skipped by the chunker, dropped by the embedder or
\* discarded with a failed run; and when the run has ended the registry is empty.
C15_HandlesReleased ==
    /\ \A p \in FaultyPaths :
           (EntryId(p) \in registry) ~> (EntryId(p) \notin registry)
    /\ [](RunEnded => registry = {})

\* A failed run has ended in which one file was skipped by the chunker, one
\* dropped by the embedder and one taken by the persister, whose transaction
\* failed.
C15_Witness ==
    /\ composite = "err"
    /\ persistPc = "failed"
    /\ registry = {}
    /\ Len(sentEntries) = 3
    /\ loadFailed # {}
    /\ embedFailed # {}
    /\ loadFailed \cap embedFailed = {}
    /\ store = << >>
\* The persister takes the head of the deletion channel in this step.
TakesRange ==
    /\ composite' = composite
    /\ persistPc = "run"
    /\ deleted_entry_ranges # <<>>
    /\ deleted_entry_ranges' = Tail(deleted_entry_ranges)

\* The persister takes the head of the channel of embedded files in this step.
TakesFile ==
    /\ composite' = composite
    /\ persistPc = "run"
    /\ embedded_files # <<>>
    /\ embedded_files' = Tail(embedded_files)

\* C16: the store changes only in a step of the persister that takes one item,
\* and then to the store with that whole item applied: a range taken leaves
\* exactly the records outside it, a file taken puts exactly its record under
\* its key; a step whose transaction fails leaves the store as it was. So the
\* store is at every state the result of applying a prefix of the items taken.
C16_AtomicApplies ==
    [][/\ (TakesRange /\ persistPc' = "run") =>
              /\ DOMAIN store' =
                     { k \in DOMAIN store : ~InRange(k, Head(deleted_entry_ranges)) }
              /\ \A k \in DOMAIN store' : store'[k] = store[k]
       /\ (TakesFile /\ persistPc' = "run") =>
              /\ DOMAIN store' =
                     DOMAIN store \cup {db_key_for_path(Head(embedded_files).file.path)}
              /\ \A k \in DOMAIN store' :
                     store'[k] = IF k = db_key_for_path(Head(embedded_files).file.path)
                                 THEN Head(embedded_files).file
                                 ELSE store[k]
       /\ (persistPc' = "failed" \/ ~(TakesRange \/ TakesFile)) => store' = store]_vars

\* The persister has written a file, then its next transaction failed: the store
\* holds the written record whole and the older record the failed step left.
C16_Witness ==
    /\ persistPc = "failed"
    /\ composite = "pending"
    /\ \E k \in DOMAIN store :
           /\ store[k].text = FileText(store[k].path)
           /\ store[k].chunks = EmbedAll(store[k].text)
           /\ store[k].chunks # <<>>
    /\ \E k \in DOMAIN store : store[k].text = OldText
\* The place of the head of the deletion channel among the ranges sent.
HeadRangeIndex == Len(sentRanges) - Len(deleted_entry_ranges) + 1

\* C17: the persister applies a deletion range and the insertion of a path the
\* range covers in the order of their arrival at its two channels: it takes no
\* range while a file the range covers that arrived before the range waits in
\* the channel of embedded files, and no file while a range that covers it and
\* arrived before it waits in the deletion channel.
C17_AppliedInArrivalOrder ==
    [][/\ TakesRange =>
              \A i \in 1..Len(embedded_files) :
                  ~(/\ embedded_files[i].seen < HeadRangeIndex
                    /\ InRange(db_key_for_path(embedded_files[i].file.path),
                               Head(deleted_entry_ranges)))
       /\ TakesFile =>
              \A j \in 1..Len(deleted_entry_ranges) :
                  ~(/\ HeadRangeIndex + j - 1 <= Head(embedded_files).seen
                    /\ InRange(db_key_for_path(Head(embedded_files).file.path),
                               deleted_entry_ranges[j]))]_vars
\* Every message of the channel q is still in q2, in its place.
IsPrefix(q, q2) == Len(q) <= Len(q2) /\ SubSeqOrEmpty(q2, 1, Len(q)) = q

\* C18: the persister has returned Ok only with the scan task and the embed task
\* returned and both channels empty; and until the run is dropped an item leaves
\* a channel only as its head, taken by the running persister, which applies it
\* to the store unless its transaction fails. So without a transaction error
\* every item sent has been applied once when the persister completes.
C18_CompletesWhenDrained ==
    /\ [](persistPc = "done" =>
              /\ scanPc \in {"done", "failed"}
              /\ embedPc \in {"done", "failed"}
              /\ deleted_entry_ranges = <<>>
              /\ embedded_files = <<>>)
    /\ [][(composite' = composite
               /\ ~IsPrefix(deleted_entry_ranges, deleted_entry_ranges'))
              => /\ TakesRange
                 /\ persistPc' = "failed"
                       \/ store' = DeleteRange(store, Head(deleted_entry_ranges))]_vars
    /\ [][(composite' = composite /\ ~IsPrefix(embedded_files, embedded_files'))
              => /\ TakesFile
                 /\ persistPc' = "failed"
                       \/ store' = Put(store,
                                       db_key_for_path(Head(embedded_files).file.path),
                                       Head(embedded_files).file)]_vars

\* The persister has completed after it applied a range and wrote a file.
C18_Witness ==
    /\ persistPc = "done"
    /\ sentRanges # <<>>
    /\ \E k \in DOMAIN store : store[k].text # OldText
\* C19: the composite future has resolved to Ok only with the scan, chunk, embed
\* and persist tasks all returned Ok; it has resolved to an error only with a
\* task returned with an error; and from the moment a task has returned an
\* error the future can resolve to the error at once, whatever the other tasks
\* are doing, and never resolves to Ok.
C19_CompositeResult ==
    /\ composite = "ok" =>
           /\ scanPc = "done"
           /\ \A w \in Workers : workers[w].pc = "done"
           /\ embedPc = "done"
           /\ persistPc = "done"
    /\ composite = "err" => "failed" \in {scanPc, embedPc, persistPc}
    /\ (composite = "pending" /\ "failed" \in {scanPc, embedPc, persistPc})
           => ENABLED JoinErr

\* The scan task has returned an error and the composite future has failed
\* with the embedder and the persister still at work.
C19_Witness ==
    /\ composite = "err"
    /\ scanPc = "failed"
    /\ embedPc = "cancelled"
    /\ persistPc = "cancelled"
    /\ sentEntries # <<>>
\* A step of the scan task at a send whose receiver is gone.
ScanSendsOnClosed ==
    /\ composite' = composite
    /\ scanPc' # scanPc
    /\ \/ scanPc = "send" /\ \A w \in Workers : workers[w].pc = "done"
       \/ scanPc = "equal" /\ deletion_range # None /\ persistPc \in {"done", "failed"}
       \/ /\ scanPc = "loop" /\ scanKind = "full"
          /\ scanIdx > Len(Files(worktree)) /\ dbPos <= Len(DbKeys)
          /\ persistPc \in {"done", "failed"}

\* A step of a chunker worker at a send whose receiver is gone.
WorkerSendsOnClosed(w) ==
    /\ composite' = composite
    /\ workers[w].pc = "send"
    /\ workers'[w] # workers[w]
    /\ embedPc \in {"done", "failed"}

\* A step of the embedder at a send whose receiver is gone.
EmbedSendsOnClosed ==
    /\ composite' = composite
    /\ embedPc = "emit"
    /\ embedQueue' # embedQueue
    /\ \A i \in 1..ZipLen(Head(embedQueue), embedResults) : embedResults[i] # None
    /\ persistPc \in {"done", "failed"}

\* A step of the persister that takes an item and leaves it unapplied.
TxnFails ==
    \/ TakesRange /\ store' # DeleteRange(store, Head(deleted_entry_ranges))
    \/ TakesFile /\ store' # Put(store, db_key_for_path(Head(embedded_files).file.path),
                                 Head(embedded_files).file)

\* C20 as stated: a send on a closed channel by the scanner, a chunker worker or
\* the embedder, and a failed transaction of the persister, make the stage that
\* hits it return an error, and the composite future then fails.
C20_HitFailsItsStage ==
    /\ [][ScanSendsOnClosed => scanPc' = "failed"]_vars
    /\ [][\A w \in Workers : WorkerSendsOnClosed(w) => workers'[w].pc = "failed"]_vars
    /\ [][EmbedSendsOnClosed => embedPc' = "failed"]_vars
    /\ [][TxnFails => persistPc' = "failed"]_vars
    /\ ("failed" \in {scanPc, embedPc, persistPc}) ~> (composite = "err")

\* C20 amended: such a send by the scanner or the embedder, and a failed
\* transaction of the persister, make that stage return an error; a chunker
\* worker that sends on a closed channel returns and its task still ends with
\* Ok, the embedder having returned an error before; in each case the composite
\* future fails.
C20_HitFailsTheRun ==
    /\ [][ScanSendsOnClosed => scanPc' = "failed"]_vars
    /\ [][\A w \in Workers : WorkerSendsOnClosed(w) =>
              /\ workers'[w].pc = "done"
              /\ embedPc = "failed"]_vars
    /\ [][EmbedSendsOnClosed => embedPc' = "failed"]_vars
    /\ [][TxnFails => persistPc' = "failed"]_vars
    /\ ("failed" \in {scanPc, embedPc, persistPc}) ~> (composite = "err")
    /\ []((\E w \in Workers : workers[w].pc = "done") /\ scanPc \notin {"done", "failed"}
             => <>(composite = "err"))

\* A chunker worker has returned on a closed channel while the scanner was at
\* work, the embedder and the persister have returned errors, and the composite
\* future has failed.
C20_Witness ==
    /\ composite = "err"
    /\ persistPc = "failed"
    /\ embedPc = "failed"
    /\ scanPc = "cancelled"
    /\ \E w \in Workers : workers[w].pc = "done"
\* C21: the step that cancels the composite future leaves the store as it is,
\* empties and closes the four channels, leaves no task running and no entry in
\* the registry; and from then on the store does not change.
C21_CancelKeepsCommitted ==
    [][/\ (composite = "pending" /\ composite' = "cancelled") =>
              /\ store' = store
              /\ registry' = {}
              /\ updated_entries' = <<>> /\ deleted_entry_ranges' = <<>>
              /\ chunked_files' = <<>> /\ embedded_files' = <<>>
              /\ scanPc' \in {"done", "failed", "cancelled"}
              /\ embedPc' \in {"done", "failed", "cancelled"}
              /\ persistPc' \in {"done", "failed", "cancelled"}
              /\ \A w \in Workers : workers'[w] \in
                     {[pc |-> "done", file |-> None], [pc |-> "cancelled", file |-> None]}
       /\ composite = "cancelled" => UNCHANGED <<store, registry>>]_vars

\* The run was cancelled with the embedder and the persister at work, after the
\* persister had committed a file: its record is in the store, whole.
C21_Witness ==
    /\ composite = "cancelled"
    /\ embedPc = "cancelled"
    /\ persistPc = "cancelled"
    /\ Len(sentEntries) >= 2
    /\ \E k \in DOMAIN store :
           /\ store[k].text = FileText(store[k].path)
           /\ store[k].chunks = EmbedAll(store[k].text)
           /\ store[k].chunks # <<>>
\* The micro-batch has just been embedded.
EmbedsBatch == embedPc = "wait" /\ embedPc' = "emit"

\* C22: a provider error on one sub-batch marks every chunk of that sub-batch
\* failed and nothing else: the flat sequence still has one slot per chunk, the
\* successful sub-batches of the same micro-batch keep their embeddings, the
\* task goes on to reassemble the files and to later micro-batches, and it
\* never returns an error because of it.
C22_ProviderErrorMarksSubBatch ==
    [][/\ EmbedsBatch =>
              LET chunks == Flatten(embedQueue')
              IN /\ Len(embedResults') = Len(chunks)
                 /\ Len(slotOutcomes') = Len(chunks)
                 /\ \A k \in 1..Len(chunks) :
                       /\ slotOutcomes'[k] = "err" => embedResults'[k] = None
                       /\ slotOutcomes'[k] = "ok" =>
                              embedResults'[k] = Some(EmbeddingOf(chunks[k].text))
       /\ embedPc' # "failed"]_vars

\* Three slots wait for reassembly, two of a sub-batch that failed and one of
\* the next sub-batch, which succeeded; an earlier micro-batch lost a file to a
\* provider error.
C22_Witness ==
    /\ embedPc = "emit"
    /\ Len(embedResults) = 3
    /\ slotOutcomes = <<"err", "err", "ok">>
    /\ embedResults[1] = None /\ embedResults[3] # None
    /\ \E p \in embedFailed : \A i \in 1..Len(embedQueue) : embedQueue[i].path # p

\* The provider returned a number of embeddings other than the one asked for.
Miscounted(outcome) == outcome \in {"short", "long"}

\* C23: when the provider returns a number of embeddings different from the
\* size of the sub-batch, none of them is used: every chunk of that sub-batch
\* is marked failed, the flat sequence keeps one slot per chunk, and the whole
\* sequence is the one an error on those sub-batches would have given.
C23_MiscountIsFailure ==
    [][EmbedsBatch =>
          LET chunks == Flatten(embedQueue')
              asError == [b \in 1..SubBatchOf(Len(chunks)) |->
                             IF Miscounted(slotOutcomes'[(b - 1) * ProviderBatchSize + 1])
                             THEN "err"
                             ELSE slotOutcomes'[(b - 1) * ProviderBatchSize + 1]]
          IN /\ Len(embedResults') = Len(chunks)
             /\ Len(slotOutcomes') = Len(chunks)
             /\ \A k \in 1..Len(chunks) :
                   Miscounted(slotOutcomes'[k]) => embedResults'[k] = None
             /\ embedResults' = AllEmbeddings(chunks, asError, 1)]_vars

\* Two full sub-batches, one answered with too few embeddings and one with too
\* many: all four slots are empty.
C23_Witness ==
    /\ embedPc = "emit"
    /\ Len(embedResults) = 4
    /\ slotOutcomes = <<"short", "short", "long", "long">>
    /\ \A k \in 1..4 : embedResults[k] = None

\* C24: in every micro-batch, whatever sub-batches succeeded or failed, the
\* reassembly loop emits a file exactly when none of its chunks lies in a
\* failed sub-batch; the fate of the other files of the micro-batch does not
\* matter.
C24_EmittedIffNoFailedChunk ==
    [][embedPc = "emit" =>
          LET file == Head(embedQueue)
              clean == \A k \in 1..Len(file.chunks) : slotOutcomes[k] = "ok"
          IN IF clean
             THEN /\ Len(embedded_files') = Len(embedded_files) + 1
                  /\ SubSeqOrEmpty(embedded_files', 1, Len(embedded_files)) = embedded_files
                  /\ embedded_files'[Len(embedded_files')].file.path = file.path
                  /\ embedded_files'[Len(embedded_files')].handle = file.handle
                  /\ Len(embedded_files'[Len(embedded_files')].file.chunks)
                         = Len(file.chunks)
             ELSE embedded_files' = embedded_files]_vars

\* The reassembly of one micro-batch of three files has dropped the first, of
\* three chunks, and nothing was emitted before. The two files left have one
\* chunk each, in different sub-batches, so the next one shares its sub-batch,
\* which succeeded, with the last chunk of the dropped file; the last one lies
\* in a failed sub-batch.
C24_Witness ==
    /\ embedPc = "emit"
    /\ Len(embedQueue) = 2
    /\ Len(embedQueue[1].chunks) = 1 /\ Len(embedQueue[2].chunks) = 1
    /\ slotOutcomes = <<"ok", "err">>
    /\ embedResults[1] # None /\ embedResults[2] = None
    /\ embedded_files = <<>>
    /\ \E p \in embedFailed : NumChunks(FileText(p)) = 3

\* The chunked and embedded records of the run that are still on their way.
RecordsInFlight ==
    { chunked_files[i].path : i \in 1..Len(chunked_files) }
        \cup { embedQueue[i].path : i \in 1..Len(embedQueue) }
        \cup { embedded_files[i].file.path : i \in 1..Len(embedded_files) }
        \cup { workers[w].file[1].path : w \in { v \in Workers : workers[v].file # None } }

\* C25: a file the chunker could not load or convert is skipped: no record of
\* it travels on, no deletion range is produced for its key, and what the store
\* held under its key when the run began is still there unchanged (a file
\* without a record gets none).
C25_LoadFailureSkipsFile ==
    \A p \in loadFailed :
        /\ p \notin RecordsInFlight
        /\ \A r \in SentRangeSet : r.lo # Some(db_key_for_path(p)) /\ r.hi # Some(db_key_for_path(p))
        /\ db_key_for_path(p) \in DOMAIN snapshot =>
              /\ \A r \in SentRangeSet : ~InRange(db_key_for_path(p), r)
              /\ db_key_for_path(p) \in DOMAIN store
              /\ store[db_key_for_path(p)] = snapshot[db_key_for_path(p)]
        /\ db_key_for_path(p) \notin DOMAIN snapshot => db_key_for_path(p) \notin DOMAIN store

\* A completed run in which a changed file with a stored record failed to load
\* while a range was deleted and another file was written.
C25_Witness ==
    /\ RunDone
    /\ sentRanges # <<>>
    /\ store # snapshot
    /\ \E e \in LiveFiles :
          /\ e.path \in loadFailed
          /\ db_key_for_path(e.path) \in DOMAIN store
          /\ store[db_key_for_path(e.path)].mtime # e.mtime
    /\ \E e \in LiveFiles :
          /\ e.path \notin loadFailed
          /\ db_key_for_path(e.path) \in DOMAIN store
          /\ db_key_for_path(e.path) \notin DOMAIN snapshot
\* The chunked-file records of a path made in this run and not yet embedded:
\* in the hands of a worker or on chunked_files.
ChunkedCopies(p) ==
    Cardinality({ w \in Workers : workers[w].file # None /\ workers[w].file[1].path = p })
        + Len(SelectSeq(chunked_files, LAMBDA f : f.path = p))

\* The entries of a path emitted by the scanner / still waiting on updated_entries.
EmittedCopies(p) == Len(SelectSeq(sentEntries, LAMBDA e : e.path = p))
WaitingCopies(p) == Len(SelectSeq(updated_entries, LAMBDA m : m.entry.path = p))

\* C26: with the workers pulling from the one queue, an entry is taken by one
\* worker and gives at most one record, the record holds all chunks of the
\* file, and no file has two chunked records in one run.
C26_ChunkedOncePerRun ==
    \A p \in Paths :
        /\ WaitingCopies(p) + ChunkedCopies(p) <= EmittedCopies(p)
        /\ \A i \in 1..Len(chunked_files) :
              chunked_files[i].path = p =>
                  chunked_files[i].chunks = chunk_text(FileText(p))
        /\ ChunkedCopies(p) <= 1
\* The paths of the entries the scan of this run has emitted.
SentPaths == { sentEntries[i].path : i \in 1..Len(sentEntries) }

PathsIn(db) == [i \in 1..Cardinality(DOMAIN db) |-> db[SortKeys(DOMAIN db)[i]].path]

\* C28: paths() returns the paths of all records, in key order, of the store
\* as it was committed when the read transaction was opened; commits of the
\* persister while it iterates do not show in the result.
C28_PathsOfOneSnapshot ==
    /\ readerPc = "iter" => IsPrefix(readerOut, PathsIn(readerSnap))
    /\ readerPc = "done" =>
          /\ readerOut = PathsIn(readerSnap)
          /\ \A i, j \in 1..Len(readerOut) :
                i < j => StrLess(db_key_for_path(readerOut[i]), db_key_for_path(readerOut[j]))

\* paths() has returned two paths or more, and the store the persister has
\* committed meanwhile holds other records than the result names.
C28_Witness ==
    /\ readerPc = "done"
    /\ Len(readerOut) >= 2
    /\ store # readerSnap
    /\ readerOut # PathsIn(store)
    /\ persistPc = "run"
\* C29: chunks_for_path of a path under whose key the store holds no record
\* returns an error, not an empty list; of a stored path it returns the chunk
\* list of the record, empty or not; either way the store is left as it was.
C29_AbsentPathIsError ==
    [][(lookup = None /\ lookup' # None) =>
          LET key == db_key_for_path(lookup'[1].path)
          IN /\ store' = store
             /\ key \notin DOMAIN store => ~lookup'[1].result.ok
             /\ key \in DOMAIN store =>
                   /\ lookup'[1].result.ok
                   /\ lookup'[1].result.chunks = store[key].chunks]_vars

\* While the persister runs on a store that holds records, a path that is not
\* among them was asked for and the answer was the error.
C29_Witness ==
    /\ lookup # None
    /\ ~lookup[1].result.ok
    /\ lookup[1].db # << >>
    /\ db_key_for_path(lookup[1].path) \notin DOMAIN lookup[1].db
    /\ store = lookup[1].db
    /\ persistPc = "run"
\* Every task has returned Ok and nothing is left in a channel: the four
\* channels are closed, their senders dropped with the tasks, and empty.
Completed ==
    /\ scanPc = "done" /\ ChunkClosed /\ embedPc = "done" /\ persistPc = "done"
    /\ updated_entries = <<>> /\ deleted_entry_ranges = <<>>
    /\ chunked_files = <<>> /\ embedded_files = <<>>

\* A sender waits for room on a full channel.
BlockedOnFull ==
    \/ scanPc = "send" /\ Len(updated_entries) >= chanCap.updated_entries
    \/ \E w \in Workers :
          workers[w].pc = "send" /\ Len(chunked_files) >= chanCap.chunked_files
    \/ /\ embedPc = "emit"
       /\ EmbeddedAllChunks(Head(embedQueue), embedResults)
       /\ Len(embedded_files) >= chanCap.embedded_files

\* C30: on every listing or change-set and every store, with no storage error
\* and a provider that always answers, under fair scheduling the run resolves
\* with Ok: a sender blocked on a full channel gets on, and when the run has
\* resolved every task has returned and the four channels are closed and empty.
C30_PipelineTerminates ==
    /\ <>(composite = "ok")
    /\ [](BlockedOnFull => <>(~BlockedOnFull))
    /\ [](composite = "ok" => Completed)

\* Backpressure reaches the scanner's side: a worker waits for room on the full
\* chunked_files while updated_entries is full behind it.
C30_Witness ==
    /\ chanCap = TightCaps
    /\ Len(updated_entries) >= chanCap.updated_entries
    /\ Len(chunked_files) >= chanCap.chunked_files
    /\ \E w \in Workers : workers[w].pc = "send"
\* The stored keys that lie after the key of every live file: the keys the
\* cursor of the merge has not consumed when the live files are exhausted.
KeysAfterLive ==
    { k \in DOMAIN snapshot : \A e \in LiveFiles : StrLess(db_key_for_path(e.path), k) }

\* The positions of sentRanges that hold a range with an unbounded end.
OpenEnded == { i \in 1..Len(sentRanges) : sentRanges[i].hi = <<>> }

\* C31: a full scan emits a range with an unbounded end only when it has
\* exhausted the live files, at most one, as its last range and starting at the
\* first stored key after the keys consumed; and it has emitted one when it is
\* done if and only if such a key remains.
C31_OneOpenEndedTail ==
    /\ OpenEnded \subseteq {Len(sentRanges)}
    /\ OpenEnded # {} =>
          /\ scanPc = "done"
          /\ KeysAfterLive # {}
          /\ sentRanges[Len(sentRanges)].lo # <<>>
          /\ sentRanges[Len(sentRanges)].lo[1] \in KeysAfterLive
          /\ \A k \in KeysAfterLive : StrLeq(sentRanges[Len(sentRanges)].lo[1], k)
    /\ (scanPc = "done" /\ KeysAfterLive # {}) => OpenEnded # {}

\* A scan is done that sent a bounded range at a stored live key and, after the
\* last live file, the open-ended range from the one stored key left.
C31_Witness ==
    /\ scanPc = "done"
    /\ Len(sentRanges) = 2
    /\ sentRanges[1].hi # <<>>
    /\ sentRanges[2].hi = <<>>
    /\ LiveFiles # {}
    /\ KeysAfterLive # {}
\* C32: a step of the persister that commits an embedded file of path p leaves
\* under the key of p exactly the new record: its path, mtime, text and chunks
\* are those of the file taken, so no chunk of an older record of p is kept;
\* the set of the other keys and the record under each of them are unchanged.
C32_PutReplacesWholeRecord ==
    [][(TakesFile /\ persistPc' = "run") =>
          LET new == Head(embedded_files).file
              key == db_key_for_path(new.path)
          IN /\ key \in DOMAIN store'
             /\ store'[key].path = new.path
             /\ store'[key].mtime = new.mtime
             /\ store'[key].text = new.text
             /\ store'[key].chunks = new.chunks
             /\ (DOMAIN store') \ {key} = (DOMAIN store) \ {key}
             /\ \A k \in (DOMAIN store) \ {key} : store'[k] = store[k]]_vars

\* The persister has overwritten the record the scan saw under a key: the new
\* record has the text of the live file and its chunks only, while another key
\* still holds the record of before the run.
C32_Witness ==
    /\ persistPc = "run"
    /\ \E k \in DOMAIN store \cap DOMAIN snapshot :
           /\ snapshot[k].text = OldText
           /\ snapshot[k].chunks # <<>>
           /\ store[k].text = FileText(store[k].path)
           /\ store[k].text # OldText
           /\ store[k].chunks = EmbedAll(store[k].text)
           /\ store[k].chunks # <<>>
           /\ \E k2 \in (DOMAIN store \cap DOMAIN snapshot) \ {k} : store[k2] = snapshot[k2]
\* The step belongs to a stage other than the persister, or to a query: it moves
\* the scanner, a chunk worker, the embedder, paths() or chunks_for_path.
MovesOtherStage ==
    \/ scanVars' # scanVars
    \/ workers' # workers
    \/ embedVars' # embedVars
    \/ readerVars' # readerVars

\* The step is one of the run itself: no join, cancellation or restart.
WithinRun == composite' = composite /\ run' = run

\* The channel goes from q to r by one send.
Sent(q, r) == Len(r) = Len(q) + 1 /\ SubSeq(r, 1, Len(q)) = q

\* The channel goes from q to r by a receive of its first items: one item, or
\* the items of one micro-batch.
Received(q, r) == \E n \in 1..Len(q) : r = SubSeqOrEmpty(q, n + 1, Len(q))

\* The private state of each stage: the persister's is its position and the store.
StagesMoved ==
    { n \in 1..5 :
        \/ n = 1 /\ scanVars' # scanVars
        \/ n = 2 /\ workers' # workers
        \/ n = 3 /\ embedVars' # embedVars
        \/ n = 4 /\ <<persistPc, store>>' # <<persistPc, store>>
        \/ n = 5 /\ readerVars' # readerVars }

\* C33: a step that moves the scanner, a chunk worker, the embedder, paths() or
\* chunks_for_path leaves the store as it is, so the store changes only in a
\* step of the persister; and within a run a step moves the private state of at
\* most one stage, each channel changes only by one send of its producer or one
\* receive of its consumer: updated_entries and deleted_entry_ranges are sent
\* by the scanner, chunked_files by a chunk worker, embedded_files by the
\* embedder, and they are received by a chunk worker, the persister, the
\* embedder and the persister.
C33_OnlyPersisterWritesStore ==
    [][/\ MovesOtherStage => store' = store
       /\ store' # store => persistPc = "run" /\ (TakesRange \/ TakesFile)
       /\ WithinRun =>
             /\ Cardinality(StagesMoved) <= 1
             /\ updated_entries' # updated_entries =>
                    \/ Sent(updated_entries, updated_entries') /\ StagesMoved = {1}
                    \/ Received(updated_entries, updated_entries') /\ StagesMoved \subseteq {2}
             /\ deleted_entry_ranges' # deleted_entry_ranges =>
                    \/ Sent(deleted_entry_ranges, deleted_entry_ranges') /\ StagesMoved = {1}
                    \/ /\ Received(deleted_entry_ranges, deleted_entry_ranges')
                       /\ StagesMoved \subseteq {4}
                       /\ persistPc = "run"
             /\ chunked_files' # chunked_files =>
                    \/ Sent(chunked_files, chunked_files') /\ StagesMoved = {2}
                    \/ Received(chunked_files, chunked_files') /\ StagesMoved \subseteq {3}
             /\ embedded_files' # embedded_files =>
                    \/ Sent(embedded_files, embedded_files') /\ StagesMoved = {3}
                    \/ /\ Received(embedded_files, embedded_files')
                       /\ StagesMoved \subseteq {4}
                       /\ persistPc = "run"]_vars

\* Every stage and both queries have acted and the store is not the one the run
\* began with: the scanner and the embedder have finished, paths() has listed
\* the snapshot it took, chunks_for_path has answered, and the persister has
\* both deleted a record and written one.
C33_Witness ==
    /\ scanPc = "done"
    /\ embedPc = "done"
    /\ readerPc = "done"
    /\ lookup # None
    /\ sentRanges # <<>>
    /\ deleted_entry_ranges = <<>>
    /\ \E k \in DOMAIN snapshot : k \notin DOMAIN store
    /\ \E k \in DOMAIN store : store[k].text = FileText(store[k].path)
\* C34: with no transaction error and under fair scheduling neither input of the
\* persister starves. An item leaves its channel only in a step of the
\* persister that commits it: a range taken leaves no record inside it, a file
\* taken leaves its record under its key. And each channel is empty again and
\* again, so every range and every file that was sent has left its channel by
\* then, although the ranges are preferred and the other channel may be full.
C34_NeitherInputStarves ==
    /\ [][deleted_entry_ranges' # deleted_entry_ranges
              /\ ~Sent(deleted_entry_ranges, deleted_entry_ranges') =>
          /\ TakesRange
          /\ persistPc' = "run"
          /\ \A k \in DOMAIN store' : ~InRange(k, Head(deleted_entry_ranges))]_vars
    /\ [][embedded_files' # embedded_files /\ ~Sent(embedded_files, embedded_files') =>
          /\ TakesFile
          /\ persistPc' = "run"
          /\ db_key_for_path(Head(embedded_files).file.path) \in DOMAIN store'
          /\ store'[db_key_for_path(Head(embedded_files).file.path)] =
                 Head(embedded_files).file]_vars
    /\ []<>(deleted_entry_ranges = <<>>)
    /\ []<>(embedded_files = <<>>)
    /\ [](deleted_entry_ranges # <<>> /\ embedded_files # <<>> =>
             <>(deleted_entry_ranges = <<>> /\ embedded_files = <<>>))

\* Both inputs of the persister are full at once: a range and an embedded file
\* wait, and the scanner has more to send.
C34_Witness ==
    /\ chanCap = TightCaps
    /\ persistPc = "run"
    /\ Len(deleted_entry_ranges) >= chanCap.deleted_entry_ranges
    /\ Len(embedded_files) >= chanCap.embedded_files
    /\ scanPc \notin {"done", "failed"}
\* C35: when a full scan has finished, every live file whose own modification
\* token is absent has been emitted on updated_entries, and so has every live
\* file whose stored record has an absent modification token.
C35_AbsentMtimeIsEmitted ==
    scanPc = "done" =>
        \A e \in LiveFiles :
            (\/ e.mtime = None
             \/ /\ db_key_for_path(e.path) \in DOMAIN snapshot
                /\ snapshot[db_key_for_path(e.path)].mtime = None)
                => e \in SentEntrySet
\* The chunks of the files of the micro-batch still to be reassembled, in order.
ChunksToCome == Flatten(embedQueue)

\* C36: in every emitted EmbeddedFile the i-th embedded chunk holds the i-th
\* chunk of the file and the embedding of exactly the text of that chunk, one
\* per chunk of the file; and during the reassembly the embeddings not yet
\* taken are, one for one and in order, those of the chunks of the files not
\* yet reassembled: each is absent or the embedding of the text of its chunk.
C36_ChunksPairedInLockstep ==
    /\ \A n \in 1..Len(embedded_files) :
           LET file == embedded_files[n].file
           IN /\ Len(file.chunks) = Len(chunk_text(file.text))
              /\ \A i \in 1..Len(file.chunks) :
                     /\ file.chunks[i].chunk = chunk_text(file.text)[i]
                     /\ file.chunks[i].embedding =
                            EmbeddingOf(SubSeqOrEmpty(file.text,
                                                      file.chunks[i].chunk.start + 1,
                                                      file.chunks[i].chunk.end))
    /\ Len(embedResults) = Len(ChunksToCome)
    /\ \A k \in 1..Len(embedResults) :
           embedResults[k] # None =>
               embedResults[k][1] = EmbeddingOf(ChunksToCome[k].text)

\* A file with no chunk and the file of three chunks after it were reassembled
\* from one flat sequence and emitted; the file that follows was embedded in a
\* sub-batch that failed and waits with its absent embedding.
C36_Witness ==
    /\ Len(embedded_files) = 2
    /\ embedded_files[1].file.chunks = <<>>
    /\ Len(embedded_files[2].file.chunks) = 3
    /\ Len(embedQueue) = 1
    /\ embedResults = <<None>>
    /\ slotOutcomes # <<>>
\* C37: no deletion range a full scan has emitted contains the key of a live
\* file, whether or not the file had a stored record when the scan began; and
\* so the persister, applying a range, deletes only records that were in the
\* store when the run began, never a record the run itself inserted.
C37_NoRangeCoversLiveKey ==
    /\ [](\A r \in SentRangeSet : \A k \in LiveKeys : ~InRange(k, r))
    /\ [][TakesRange =>
              \A k \in DOMAIN store :
                  InRange(k, Head(deleted_entry_ranges)) =>
                      k \in DOMAIN snapshot /\ store[k] = snapshot[k]]_vars
\* C38: the deletion ranges a full scan has emitted are in ascending key order
\* and pairwise disjoint: every range has a start, every range that is followed
\* by another is bounded and ends strictly before the next one starts, and in
\* every bounded range the start is not after the end.
C38_RangesAscendingDisjoint ==
    \A i \in 1..Len(sentRanges) :
        /\ sentRanges[i].lo # <<>>
        /\ sentRanges[i].hi # <<>> => StrLeq(sentRanges[i].lo[1], sentRanges[i].hi[1])
        /\ i < Len(sentRanges) =>
               /\ sentRanges[i].hi # <<>>
               /\ StrLess(sentRanges[i].hi[1], sentRanges[i + 1].lo[1])

\* Two ranges were sent, with a live stored key between the end of the first and
\* the start of the second.
C38_Witness ==
    /\ scanPc = "done"
    /\ Len(sentRanges) = 2
    /\ \E k \in DOMAIN snapshot \cap LiveKeys :
           /\ StrLess(sentRanges[1].hi[1], k)
           /\ StrLess(k, sentRanges[2].lo[1])
\* The embedder reassembles a file without chunks in this step.
EmitsEmptyFile ==
    /\ embedPc = "emit"
    /\ Head(embedQueue).chunks = <<>>
    /\ embedQueue' = Tail(embedQueue)

\* C39: the embedder sends every chunked file that has no chunk, with an empty
\* chunk list and its path, mtime and text, whatever the provider answered for
\* the micro-batch; the persister stores that record under the key of the file;
\* and a full scan that follows runs in which every file loaded and embedded
\* does not emit a file without chunks again.
C39_EmptyFileKept ==
    /\ [][EmitsEmptyFile =>
              /\ Len(embedded_files') = Len(embedded_files) + 1
              /\ embedded_files'[Len(embedded_files')].file =
                     [path |-> Head(embedQueue).path, mtime |-> Head(embedQueue).mtime,
                      chunks |-> <<>>, text |-> Head(embedQueue).text]]_vars
    /\ [][(TakesFile /\ Head(embedded_files).file.chunks = <<>>) =>
              /\ db_key_for_path(Head(embedded_files).file.path) \in DOMAIN store'
              /\ store'[db_key_for_path(Head(embedded_files).file.path)].mtime
                     = Head(embedded_files).file.mtime]_vars
    /\ []((run >= 2 /\ prevClean) =>
             \A e \in SentEntrySet : NumChunks(FileText(e.path)) # 0)
====
